---- MODULE Spec2Model ----
(***************************************************************************)
(* A model of noelbk/solver: the choice engine (solver/__init__.py), the   *)
(* variable store (predicates/varstore.py) and the predicate graph         *)
(* (predicates/provisioning.py).                                           *)
(*                                                                         *)
(* Python lists are 0-based, TLA+ sequences 1-based: the entry the code    *)
(* calls choices[i] is choices[i + 1] here.                                *)
(***************************************************************************)
EXTENDS Integers, Sequences, FiniteSets, TLC

\* The state of the choice engine (solver/__init__.py).
VARIABLES
  fn,            \* the driven function handed to solve()
  choice_stack,  \* Solver.choice_stack: the deque of pending paths
  choices,       \* Solver.choices: the path of the running universe
  choices_idx,   \* Solver.choices_idx
  if_any_stack,  \* Solver.if_any_stack: the IfAny objects entered, by address
  heap,          \* the IfAny objects ever allocated, by address
  mode,          \* where solve() is: new, loop, fn, done, failed
  pc,            \* where fn is
  regs,          \* the locals of fn
  err,           \* the failure that left solve(), if any
  yielded,       \* what solve() has yielded so far
  \* history of the run, read by the properties only
  pending,       \* per pending path: its serial number and recorded call sites
  nenq,          \* how many paths were ever put on choice_stack
  uni,           \* the running universe: serial, how many were run, start path,
                 \* recorded sites, calls
  took,          \* per entry of if_any_stack: did if_any() return True
  hist           \* per IfAny object: how its if-block and else-block were run

evars == << fn, choice_stack, choices, choices_idx, if_any_stack, heap, mode,
            pc, regs, err, yielded, pending, nenq, uni, took, hist >>

\* The state of the variable store (predicates/varstore.py).
VARIABLES
  root,      \* VarStore.root: what each existing path holds
  watches,   \* VarStore.watches: path -> list of VarWatch, by address
  wpath,     \* the VarWatch objects ever made: their path
  notified,  \* the callbacks the last operation invoked, in order
  last,      \* the last operation, its failure, and the store before it
  unwatched, \* history: the VarWatch objects unwatch() has removed
  note       \* _check_watch while its callbacks run: the path, the position
             \* of the loop in the list, and the list as it was at the start

svars == << root, watches, wpath, notified, last, unwatched, note >>

\* The state of the predicate graph (predicates/provisioning.py): one Env.
VARIABLES
  pred_funcs,       \* Env.pred_funcs: func_name -> the predicate's function
  predicates,       \* Env.predicates: pred.name -> Predicate
  unsolved,         \* Env.unsolved: the worklist of pred.name
  unsolved_sorted,  \* Env.unsolved_sorted
  pred_stack,       \* Env.pred_stack
  solver,           \* Env.solver: is a Solver attached (None: FALSE)
  gpc,              \* where the Env is: base, loop, picked, check, else,
                    \* yield, abort
  frames,           \* the running activations of Predicate.check, oldest first
  preds,            \* unsolved_choose: the candidates handed to choose()
  pred,             \* _solve_me: the predicate choose() returned
  saved,            \* the Env as it was when if_any() was called
  gerr,             \* the failure that left _solve_me, if any
  round,            \* history: the worklist the last round popped from
  calls,            \* history: per instance, how often the pass called its
                    \* function, and which requires the memo answered
  env,              \* which Env object the fields above belong to: the one
                    \* solve() is called on, or the one clone() returned
  baseline          \* the fields of the Env object solve() is called on

gvars == << pred_funcs, predicates, unsolved, unsolved_sorted, pred_stack,
            solver, gpc, frames, preds, pred, saved, gerr, round, calls,
            env, baseline >>

\* The variable sets (class Vars of predicates/provisioning.py).
VARIABLES
  vheap,     \* the Vars objects ever made: their parent and their own items
  vself,     \* history: the Vars object the last write or delete was made on
  watching   \* history: the calls of Predicate.watch made, as (instance, name)

xvars == << vheap, vself, watching >>

\* The instances of examples/provisioning.py and their cleanups.
VARIABLES
  insts,     \* the PredInst objects: their children, parents and cleanups
  clog       \* history: the checks, the cleanups registered and run, and the
             \* instances removed, in order

cvars == << insts, clog >>

\* A call of diehardn (examples/buckets.py).
VARIABLES
  run        \* its locals (buckets, moves, visited), the Solver's fields as
             \* it leaves them, and how the call ended

bvars == << run >>

vars == << evars, svars, gvars, xvars, cvars, bvars >>

\* ------------------------------------------------------------------ bounds

\* Largest number of options a choose() of a driven function offers.
MaxOpt == 3

\* ------------------------------------------------- the driven functions fn

\* range(n) and (1, .., n), the option sequences the tests hand to choose().
Range0(n) == [i \in 1..n |-> i - 1]
Tuple1(n) == [i \in 1..n |-> i]

NoOpts == <<>>

\* One instruction of a driven function. r: the local it assigns or tests,
\* opts: the options of a choose, v: a value, t: a jump target.
Ins(op, r, opts, v, t, e) ==
  [op |-> op, r |-> r, opts |-> opts, v |-> v, t |-> t, e |-> e]

IChoose(r, opts)  == Ins("choose", r, opts, 0, 0, "")
IPrune            == Ins("prune", 0, NoOpts, 0, 0, "")
IPruneEq(r, v)    == Ins("prune_eq", r, NoOpts, v, 0, "")
IPruneDup         == Ins("prune_dup", 0, NoOpts, 0, 0, "")
IJne(r, v, t)     == Ins("jne", r, NoOpts, v, t, "")
IJmp(t)           == Ins("jmp", 0, NoOpts, 0, t, "")
ISet(r, v)        == Ins("set", r, NoOpts, v, 0, "")
IIfAny(t)         == Ins("if_any", 0, NoOpts, 0, t, "")
IElseNone(t)      == Ins("else_none", 0, NoOpts, 0, t, "")
IRetRegs          == Ins("return_regs", 0, NoOpts, 0, 0, "")
IRetReg(r)        == Ins("return_reg", r, NoOpts, 0, 0, "")
IRet(v)           == Ins("return", 0, NoOpts, v, 0, "")
IRaiseEq(r, v, e) == Ins("raise_eq", r, NoOpts, v, 0, e)

\* The values a driven function returns besides its locals: "else", and None
\* when it falls off its end.
RET_ELSE == 100
RET_INNER_ELSE == RET_ELSE + 1
RET_NONE == RET_ELSE + 2

\* The failure kinds: the module's two, and the ones the interpreter raises.
PruneException == "PruneException"
ChooseException == "ChooseException"
ValueError == "ValueError"
IndexError == "IndexError"
TypeError == "TypeError"
AttributeError == "AttributeError"

\* TestSolver.fn, over (1, .., n).
P_fn(n) ==
  << IChoose(1, Tuple1(n)),
     IChoose(2, Tuple1(n)),
     IJne(2, 2, 6),
     IChoose(3, Tuple1(n)),
     IJmp(7),
     ISet(3, 0),
     IPruneDup,
     IRetRegs >>

\* ifany_if, over range(n), pruning on c == v.
P_ifany_if(n, v) ==
  << IIfAny(5),
     IChoose(1, Range0(n)),
     IPruneEq(1, v),
     IRetReg(1),
     IElseNone(7),
     IRet(RET_ELSE) >>

\* ifany_else
P_ifany_else ==
  << IIfAny(3),
     IPrune,
     IElseNone(5),
     IRet(RET_ELSE) >>

\* ifany_else2, over range(n), ending in ifany_if(n, v).
P_ifany_else2(n, v) ==
  << IIfAny(17),
       IIfAny(9),
         IChoose(0, Range0(n)),
         IIfAny(7),
           IChoose(0, Range0(n)),
           IPrune,
         IElseNone(9),
           IPrune,
       IElseNone(17),
         IIfAny(14),
           IChoose(1, Range0(n)),
           IPruneEq(1, v),
           IRetReg(1),
         IElseNone(16),
           IRet(RET_ELSE),
         IRet(RET_NONE),
     IElseNone(19),
       IRet(RET_ELSE) >>

\* ifany_none
P_ifany_none ==
  << IIfAny(3),
     IPrune,
     IElseNone(5),
     IPrune >>

\* A choose() before the pair, a body that leaves the if-block, and a prune
\* after the pair.
P_leave(n, v) ==
  << IChoose(1, Range0(n)),
     IIfAny(5),
       IChoose(2, Range0(n)),
       IPruneEq(2, v),
     IElseNone(7),
       IRet(RET_ELSE),
     IPruneEq(1, v),
     IRetRegs >>

\* Two pairs one after the other; the else-block of the second one chooses.
P_seq(n, v) ==
  << IIfAny(4),
       IChoose(1, Range0(n)),
       IPruneEq(1, v),
     IElseNone(6),
       ISet(1, RET_ELSE),
     IIfAny(9),
       IChoose(2, Range0(n)),
       IPrune,
     IElseNone(12),
       IChoose(3, Range0(n)),
       IRetRegs >>

\* A choose() inside an inner if-block whose universes go on into the rest
\* of the outer if-block.
P_nested(n, v) ==
  << IIfAny(8),
       IIfAny(4),
         IChoose(1, Range0(n)),
       IElseNone(6),
         IRet(RET_INNER_ELSE),
       IPruneEq(1, v),
       IRetReg(1),
     IElseNone(10),
       IRet(RET_ELSE) >>

\* The same, with an else-block that chooses.
P_nested2(n, v) ==
  << IIfAny(8),
       IIfAny(4),
         IChoose(1, Range0(n)),
       IElseNone(6),
         IRet(RET_INNER_ELSE),
       IPruneEq(1, v),
       IRetReg(1),
     IElseNone(11),
       IChoose(2, Range0(n)),
       IRetRegs >>

\* Three pairs, one inside the other: the universes of the choose() go on
\* into the middle if-block, what is left of them into the outer one.
P_nested3(n, v) ==
  << IIfAny(10),
       IIfAny(8),
         IIfAny(5),
           IChoose(1, Range0(n)),
         IElseNone(7),
           IRet(RET_INNER_ELSE),
         IPruneEq(1, v),
       IElseNone(9),
       IPrune,
     IElseNone(12),
       IRet(RET_ELSE) >>

\* Two pairs, one inside the other, whose universes leave the outer
\* if-block unless their choice is v.
P_nested_leave(n, v) ==
  << IIfAny(6),
       IIfAny(4),
         IChoose(1, Range0(n)),
       IElseNone(5),
       IPruneEq(1, v),
     IElseNone(8),
       IRet(RET_ELSE),
     IRetReg(1) >>

\* A choose() among n options, then one inside an if_any scope that finds
\* nothing to choose from (as host() does when no host is left).
P_choose_empty(n) ==
  << IChoose(1, Range0(n)),
     IIfAny(4),
       IChoose(2, NoOpts),
     IElseNone(6),
       IRet(RET_ELSE),
     IRetRegs >>

\* A function that raises e when its choice is v.
P_raise(n, v, e) ==
  << IChoose(1, Range0(n)),
     IRaiseEq(1, v, e),
     IChoose(2, Range0(n)),
     IRetRegs >>

ProgNames == { "fn", "ifany_if", "ifany_else", "ifany_else2", "ifany_none",
               "leave", "seq", "nested", "nested2", "nested3", "nested_leave",
               "choose_empty", "raise" }

Program(name, n, v, e) ==
  CASE name = "fn"          -> P_fn(n)
    [] name = "ifany_if"    -> P_ifany_if(n, v)
    [] name = "ifany_else"  -> P_ifany_else
    [] name = "ifany_else2" -> P_ifany_else2(n, v)
    [] name = "ifany_none"  -> P_ifany_none
    [] name = "leave"       -> P_leave(n, v)
    [] name = "seq"         -> P_seq(n, v)
    [] name = "nested"      -> P_nested(n, v)
    [] name = "nested2"     -> P_nested2(n, v)
    [] name = "nested3"     -> P_nested3(n, v)
    [] name = "nested_leave" -> P_nested_leave(n, v)
    [] name = "choose_empty" -> P_choose_empty(n)
    [] name = "raise"       -> P_raise(n, v, e)

\* ------------------------------------------------------ the choice engine

\* An entry of a path: a branch index, or an IfAny object (by address).
C(i) == [k |-> "c", v |-> i]
M(a) == [k |-> "m", v |-> a]

\* IfAny.__init__
IfAny(choice_idx) ==
  [choice_idx |-> choice_idx, val |-> TRUE, locked |-> FALSE, branch_count |-> 1]

NoRegs == << 0, 0, 0 >>

\* The instruction fn is at; past its last one fn falls off its end.
Cur == IF pc \in 1..Len(fn) THEN fn[pc] ELSE IRet(RET_NONE)

Assign(r, x) == IF r = 0 THEN regs ELSE [regs EXCEPT ![r] = x]

\* pop() in the place of popleft().
PopIndex_last(q) == Len(q)

\* The deque end solve() takes the next path from: popleft().
PopIndex(q) == 1

Without(q, i) == [j \in 1..(Len(q) - 1) |-> IF j < i THEN q[j] ELSE q[j + 1]]

\* No except clause at all: every failure leaves solve().
Swallowed_none(kind) == FALSE

\* solve() with an except clause for IndexError too.
Swallowed_index(kind) ==
  kind \in { PruneException, ChooseException, IndexError }

\* The except clauses of solve(): the failures it passes over.
Swallowed(kind) == kind \in { PruneException, ChooseException }

\* range(2, len(choices)) in the place of range(1, len(choices)).
NewPaths_from2(path, n) == [i \in 1..(n - 2) |-> path \o << [k |-> "c", v |-> i + 1] >>]

\* reversed(range(1, len(choices))) in the place of range(1, len(choices)).
NewPaths_desc(path, n) == [i \in 1..(n - 1) |-> path \o << [k |-> "c", v |-> n - i] >>]

\* choose(), first visit: the paths pushed for the remaining options.
NewPaths(path, n) == [i \in 1..(n - 1) |-> path \o << C(i) >>]

\* len(choices) in the place of len(choices)-1.
BranchesAdded_all(n) == n

\* choose(), first visit: what is added to the branch count of the innermost
\* IfAny.
BranchesAdded(n) == n - 1

\* choose(), replay: choices[self.choices[self.choices_idx]].
ReplayChoice(opts, ent) == opts[ent.v + 1]

\* prune(): the path pushed to run the else-block of IfAny object m.
ElsePath(path, m) == SubSeq(path, 1, m.choice_idx + 1)

Top(st) == st[Len(st)]
Pop(st) == SubSeq(st, 1, Len(st) - 1)

\* The call sites of the first n calls of the running universe.
Sites(n) == [i \in 1..n |-> IF i <= Len(uni.trace) THEN uni.trace[i].pc ELSE 0]

Call(op, ret, enq) == [pc |-> pc, op |-> op, ret |-> ret, enq |-> enq]

NoHist == [left |-> 0, elseTrue |-> 0, elseRun |-> 0, elseEnq |-> 0]

\* The failure kind leaves fn: solve() passes over it or dies of it.
Raise(kind) ==
  IF Swallowed(kind)
    THEN mode' = "loop" /\ err' = err
    ELSE mode' = "failed" /\ err' = kind

EInit ==
  /\ \E name \in ProgNames, n \in 0..MaxOpt, v \in 0..MaxOpt,
        e \in { ChooseException, ValueError } :
        fn = Program(name, n, v, e)
  /\ choice_stack = << >>
  /\ choices = << >>
  /\ choices_idx = -1
  /\ if_any_stack = << >>
  /\ heap = << >>
  /\ mode = "new"
  /\ pc = 0
  /\ regs = NoRegs
  /\ err = ""
  /\ yielded = << >>
  /\ pending = << >>
  /\ nenq = 0
  /\ uni = [serial |-> 0, nth |-> 0, start |-> << >>, sites |-> << >>,
           trace |-> << >>]
  /\ took = << >>
  /\ hist = << >>

\* solve(), up to its loop.
solve ==
  /\ mode = "new"
  /\ choice_stack' = << << >> >>
  /\ pending' = << [serial |-> 1, sites |-> << >>] >>
  /\ nenq' = 1
  /\ mode' = "loop"
  /\ UNCHANGED << svars, gvars, xvars, cvars, bvars >>
  /\ UNCHANGED << fn, choices, choices_idx, if_any_stack, heap, pc, regs, err,
                  yielded, uni, took, hist >>

\* solve(): the loop takes the next pending path and calls fn.
solve_next ==
  /\ mode = "loop"
  /\ Len(choice_stack) > 0
  /\ LET i == PopIndex(choice_stack) IN
       /\ choices' = choice_stack[i]
       /\ choice_stack' = Without(choice_stack, i)
       /\ uni' = [serial |-> pending[i].serial, nth |-> uni.nth + 1,
                  start |-> choice_stack[i],
                  sites |-> pending[i].sites, trace |-> << >>]
       /\ pending' = Without(pending, i)
  /\ choices_idx' = -1
  /\ if_any_stack' = << >>
  /\ took' = << >>
  /\ mode' = "fn"
  /\ pc' = 1
  /\ regs' = NoRegs
  /\ UNCHANGED << svars, gvars, xvars, cvars, bvars >>
  /\ UNCHANGED << fn, heap, err, yielded, nenq, hist >>

\* solve(): the loop ends.
solve_done ==
  /\ mode = "loop"
  /\ Len(choice_stack) = 0
  /\ mode' = "done"
  /\ UNCHANGED << svars, gvars, xvars, cvars, bvars >>
  /\ UNCHANGED << fn, choice_stack, choices, choices_idx, if_any_stack, heap,
                  pc, regs, err, yielded, pending, nenq, uni, took, hist >>

\* Solver.choose
choose ==
  /\ mode = "fn"
  /\ Cur.op = "choose"
  /\ LET opts == Cur.opts
         n == Len(opts)
         idx == choices_idx + 1
     IN
     /\ choices_idx' = idx
     /\ IF idx < Len(choices)
          THEN \* return the next choice in my path
            LET ent == choices[idx + 1] IN
            /\ UNCHANGED << choice_stack, heap, choices, pending, nenq >>
            /\ IF ent.k = "m"
                 THEN /\ Raise(TypeError)
                      /\ UNCHANGED << regs, pc, uni >>
                 ELSE IF ent.v >= n
                 THEN /\ Raise(IndexError)
                      /\ UNCHANGED << regs, pc, uni >>
                 ELSE /\ regs' = Assign(Cur.r, ReplayChoice(opts, ent))
                      /\ pc' = pc + 1
                      /\ uni' = [uni EXCEPT !.trace =
                            Append(@, Call("choose", ReplayChoice(opts, ent), 0))]
                      /\ UNCHANGED << mode, err >>
          ELSE \* push all possible next choices
            LET new == NewPaths(choices, n) IN
            /\ choice_stack' = choice_stack \o new
            /\ pending' = pending \o
                 [i \in 1..Len(new) |->
                    [serial |-> nenq + i, sites |-> Append(Sites(idx), pc)]]
            /\ nenq' = nenq + Len(new)
            /\ heap' = IF Len(if_any_stack) > 0
                         THEN [heap EXCEPT ![Top(if_any_stack)].branch_count =
                                 @ + BranchesAdded(n)]
                         ELSE heap
            /\ IF n = 0
                 THEN /\ Raise(IndexError)
                      /\ UNCHANGED << regs, pc, uni, choices >>
                 ELSE /\ choices' = Append(choices, C(0))
                      /\ regs' = Assign(Cur.r, opts[1])
                      /\ pc' = pc + 1
                      /\ uni' = [uni EXCEPT !.trace =
                            Append(@, Call("choose", opts[1], Len(new)))]
                      /\ UNCHANGED << mode, err >>
  /\ UNCHANGED << svars, gvars, xvars, cvars, bvars >>
  /\ UNCHANGED << fn, if_any_stack, yielded, took, hist >>

\* prune(), with the lock left out of the test.
Flips_unlocked(m, bc) == bc = 0

\* Solver.prune: if if_any_inst.branch_count == 0 and not if_any_inst.locked
Flips(m, bc) == bc = 0 /\ ~m.locked

\* Whether the instruction fn is at calls prune().
Prunes ==
  \/ Cur.op = "prune"
  \/ Cur.op = "prune_eq" /\ regs[Cur.r] = Cur.v
  \/ Cur.op = "prune_dup" /\ (regs[1] = regs[2] \/ regs[2] = regs[3] \/ regs[1] = regs[3])

\* Solver.prune
prune ==
  /\ mode = "fn"
  /\ Prunes
  /\ IF Len(if_any_stack) > 0
       THEN LET a == Top(if_any_stack)
                bc == heap[a].branch_count - 1
            IN
            IF Flips(heap[a], bc)
              THEN \* all my branches end in prune: enable my else_none block
                /\ heap' = [heap EXCEPT ![a].branch_count = bc, ![a].val = FALSE]
                /\ choice_stack' = Append(choice_stack, ElsePath(choices, heap[a]))
                /\ pending' = Append(pending,
                      [serial |-> nenq + 1,
                       sites |-> Sites(Len(ElsePath(choices, heap[a])))])
                /\ nenq' = nenq + 1
                /\ hist' = [hist EXCEPT ![a].elseEnq = @ + 1]
              ELSE
                /\ heap' = [heap EXCEPT ![a].branch_count = bc]
                /\ UNCHANGED << choice_stack, pending, nenq, hist >>
       ELSE UNCHANGED << heap, choice_stack, pending, nenq, hist >>
  /\ Raise(PruneException)
  /\ UNCHANGED << svars, gvars, xvars, cvars, bvars >>
  /\ UNCHANGED << fn, choices, choices_idx, if_any_stack, pc, regs, yielded,
                  uni, took >>

\* Solver.if_any
if_any ==
  /\ mode = "fn"
  /\ Cur.op = "if_any"
  /\ LET idx == choices_idx + 1 IN
     /\ choices_idx' = idx
     /\ IF idx < Len(choices) /\ choices[idx + 1].k = "c"
          THEN \* the entry is a branch index, which has no val
            /\ if_any_stack' = Append(if_any_stack, 0)
            /\ took' = Append(took, FALSE)
            /\ Raise(AttributeError)
            /\ UNCHANGED << choices, heap, hist, pc, uni >>
          ELSE
            LET a == IF idx < Len(choices) THEN choices[idx + 1].v
                                           ELSE Len(heap) + 1
                h == IF idx < Len(choices) THEN heap
                                           ELSE Append(heap, IfAny(idx))
            IN
            /\ heap' = h
            /\ hist' = IF idx < Len(choices) THEN hist ELSE Append(hist, NoHist)
            /\ choices' = IF idx < Len(choices) THEN choices
                                                ELSE Append(choices, M(a))
            /\ if_any_stack' = Append(if_any_stack, a)
            /\ took' = Append(took, h[a].val)
            /\ pc' = IF h[a].val THEN pc + 1 ELSE Cur.t
            /\ uni' = [uni EXCEPT !.trace = Append(@, Call("if_any", h[a].val, 0))]
            /\ UNCHANGED << mode, err >>
  /\ UNCHANGED << svars, gvars, xvars, cvars, bvars >>
  /\ UNCHANGED << fn, choice_stack, regs, yielded, pending, nenq >>

\* Solver.else_none
else_none ==
  /\ mode = "fn"
  /\ Cur.op = "else_none"
  /\ IF Len(if_any_stack) = 0
       THEN \* pop from an empty list
         /\ Raise(IndexError)
         /\ UNCHANGED << if_any_stack, took, heap, hist, pc >>
       ELSE
         LET a == Top(if_any_stack)
             ret == ~heap[a].val
         IN
         /\ if_any_stack' = Pop(if_any_stack)
         /\ took' = Pop(took)
         /\ heap' = [heap EXCEPT ![a].locked = TRUE]
         /\ hist' = [hist EXCEPT
               ![a].left = IF Top(took) THEN @ + 1 ELSE @,
               ![a].elseTrue = IF ret THEN @ + 1 ELSE @,
               ![a].elseRun = IF ret /\ Len(uni.start) = heap[a].choice_idx + 1
                                THEN @ + 1 ELSE @]
         /\ pc' = IF ret THEN pc + 1 ELSE Cur.t
         /\ UNCHANGED << mode, err >>
  /\ UNCHANGED << svars, gvars, xvars, cvars, bvars >>
  /\ UNCHANGED << fn, choice_stack, choices, choices_idx, regs, yielded,
                  pending, nenq, uni >>

\* What fn returns at the instruction it is at.
RetVal ==
  CASE Cur.op = "return_regs" -> regs
    [] Cur.op = "return_reg"  -> << regs[Cur.r] >>
    [] OTHER                  -> << Cur.v >>

\* fn returns and solve() yields what it returned.
fn_return ==
  /\ mode = "fn"
  /\ Cur.op \in { "return", "return_reg", "return_regs" }
  /\ yielded' = Append(yielded,
       [val |-> RetVal, path |-> choices, serial |-> uni.serial])
  /\ hist' = [a \in 1..Len(hist) |->
       IF \E i \in 1..Len(if_any_stack) : if_any_stack[i] = a /\ took[i]
         THEN [hist[a] EXCEPT !.left = @ + 1]
         ELSE hist[a]]
  /\ mode' = "loop"
  /\ UNCHANGED << svars, gvars, xvars, cvars, bvars >>
  /\ UNCHANGED << fn, choice_stack, choices, choices_idx, if_any_stack, heap,
                  pc, regs, err, pending, nenq, uni, took >>

\* fn raises a failure of its own.
fn_raise ==
  /\ mode = "fn"
  /\ Cur.op = "raise_eq"
  /\ regs[Cur.r] = Cur.v
  /\ Raise(Cur.e)
  /\ UNCHANGED << svars, gvars, xvars, cvars, bvars >>
  /\ UNCHANGED << fn, choice_stack, choices, choices_idx, if_any_stack, heap,
                  pc, regs, yielded, pending, nenq, uni, took, hist >>

\* fn takes a step that calls nothing.
fn_local ==
  /\ mode = "fn"
  /\ \/ /\ Cur.op = "set"
        /\ regs' = Assign(Cur.r, Cur.v)
        /\ pc' = pc + 1
     \/ /\ Cur.op = "jmp"
        /\ pc' = Cur.t
        /\ regs' = regs
     \/ /\ Cur.op = "jne"
        /\ pc' = IF regs[Cur.r] # Cur.v THEN Cur.t ELSE pc + 1
        /\ regs' = regs
     \/ /\ Cur.op \in { "prune_eq", "prune_dup" }
        /\ ~Prunes
        /\ pc' = pc + 1
        /\ regs' = regs
     \/ /\ Cur.op = "raise_eq"
        /\ regs[Cur.r] # Cur.v
        /\ pc' = pc + 1
        /\ regs' = regs
  /\ UNCHANGED << svars, gvars, xvars, cvars, bvars >>
  /\ UNCHANGED << fn, choice_stack, choices, choices_idx, if_any_stack, heap,
                  mode, err, yielded, pending, nenq, uni, took, hist >>

ENext ==
  \/ solve
  \/ solve_next
  \/ solve_done
  \/ choose
  \/ prune
  \/ if_any
  \/ else_none
  \/ fn_return
  \/ fn_raise
  \/ fn_local


\* ------------------------------------------- properties of the choice engine

\* The outcomes the quantifier semantics gives fn from instruction p on, up
\* to instruction stop: a universe returns ("ret"), prunes ("prune"), fails
\* ("err") or reaches stop ("exit"). An if-block all of whose universes prune
\* is replaced by one universe that runs the else-block.
RECURSIVE Exec(_, _, _, _)
Exec(p, rg, stop, tr) ==
  LET ins == IF p \in 1..Len(fn) THEN fn[p] ELSE IRet(RET_NONE)
      out(t, val) == [t |-> t, val |-> val, regs |-> rg, trail |-> tr]
      set(r, x) == IF r = 0 THEN rg ELSE [rg EXCEPT ![r] = x]
  IN
  IF p = stop THEN { out("exit", << >>) }
  ELSE CASE ins.op = "choose" ->
         IF Len(ins.opts) = 0 THEN { out("err", << >>) }
         ELSE UNION { Exec(p + 1, set(ins.r, ins.opts[i]), stop, Append(tr, i - 1)) :
                      i \in 1..Len(ins.opts) }
    [] ins.op = "prune" -> { out("prune", << >>) }
    [] ins.op = "prune_eq" ->
         IF rg[ins.r] = ins.v THEN { out("prune", << >>) }
                              ELSE Exec(p + 1, rg, stop, tr)
    [] ins.op = "prune_dup" ->
         IF rg[1] = rg[2] \/ rg[2] = rg[3] \/ rg[1] = rg[3]
           THEN { out("prune", << >>) }
           ELSE Exec(p + 1, rg, stop, tr)
    [] ins.op = "set" -> Exec(p + 1, set(ins.r, ins.v), stop, tr)
    [] ins.op = "jmp" -> Exec(ins.t, rg, stop, tr)
    [] ins.op = "jne" -> Exec(IF rg[ins.r] # ins.v THEN ins.t ELSE p + 1, rg, stop, tr)
    [] ins.op = "raise_eq" ->
         IF rg[ins.r] = ins.v THEN { out("err", << >>) }
                              ELSE Exec(p + 1, rg, stop, tr)
    [] ins.op = "if_any" ->
         LET blk == Exec(p + 1, rg, ins.t, Append(tr, -1)) IN
         IF \A o \in blk : o.t = "prune"
           THEN Exec(ins.t + 1, rg, stop, Append(tr, -2))
           ELSE UNION { IF o.t = "exit"
                          THEN Exec(fn[ins.t].t, o.regs, stop, o.trail)
                          ELSE { o } : o \in blk }
    [] ins.op = "return_regs" -> { out("ret", rg) }
    [] ins.op = "return_reg" -> { out("ret", << rg[ins.r] >>) }
    [] OTHER -> { out("ret", << ins.v >>) }

Ref == Exec(1, NoRegs, 0, << >>)

RefCount(v) == Cardinality({ o \in Ref : o.t = "ret" /\ o.val = v })

YieldCount(v) == Cardinality({ i \in 1..Len(yielded) : yielded[i].val = v })

\* solve() yielded the results of the quantifier semantics, each as often.
SameResults ==
  \A v \in { o.val : o \in { x \in Ref : x.t = "ret" } }
         \cup { yielded[i].val : i \in 1..Len(yielded) } :
    YieldCount(v) = RefCount(v)

IfAnySites == { i \in 1..Len(fn) : fn[i].op = "if_any" }

\* No pair of fn lies in the if-block or the else-block of another one.
Flat ==
  \A i, j \in IfAnySites : ~(i < j /\ j < fn[fn[i].t].t)

\* fn calls nothing but choose() and prune(), each choose() with an option.
ChooseOnly ==
  /\ IfAnySites = { }
  /\ \A o \in Ref : o.t # "err"

PathIdx(path) == [i \in 1..Len(path) |-> IF path[i].k = "c" THEN path[i].v ELSE 0]

\* Lexicographic order of branch-index sequences.
LexLess(a, b) ==
  \/ \E k \in 1..Len(a) :
        /\ k <= Len(b)
        /\ \A i \in 1..(k - 1) : a[i] = b[i]
        /\ a[k] < b[k]
  \/ /\ Len(a) < Len(b)
     /\ \A i \in 1..Len(a) : a[i] = b[i]

\* C1: for a function whose if_any()/else_none() pairs are not nested, once
\* solve() has run to its end: the else-block of a pair ran on its synthetic
\* path in at most one universe, and it ran if and only if no universe that
\* entered the if-block left it or returned from it (every one of them
\* pruned); where a universe left the if-block, else_none() returned True in
\* no universe; and what was yielded is what the quantifier semantics gives.
C1_FlatIfAny ==
  (mode = "done" /\ Flat) =>
    /\ \A a \in 1..Len(heap) :
         /\ hist[a].elseRun <= 1
         /\ (hist[a].elseRun = 1) <=> (hist[a].left = 0)
         /\ hist[a].left > 0 => hist[a].elseTrue = 0
    /\ SameResults

\* A finished search in which one pair ran its else-block and a universe
\* left the if-block of another pair.
C1_Witness ==
  /\ mode = "done"
  /\ Flat
  /\ \E a, b \in 1..Len(heap) :
       /\ hist[a].elseRun = 1 /\ hist[a].left = 0
       /\ hist[b].left > 0 /\ hist[b].elseTrue = 0
  /\ Len(yielded) > 0

\* C2: with nested pairs too, a finished search has yielded exactly the
\* results of the quantifier semantics, the same as the non-nested program
\* the pairs are equivalent to.
C2_NestedIfAny ==
  mode = "done" => SameResults

\* C3: for a function that only calls choose() and prune(), a finished
\* search has yielded the return value of every branch-index sequence that
\* completes without prune(), each exactly once, and nothing else.
C3_Enumerates ==
  (mode = "done" /\ ChooseOnly) =>
    LET Y == { [path |-> PathIdx(yielded[i].path), val |-> yielded[i].val] :
               i \in 1..Len(yielded) }
    IN /\ Y = { [path |-> o.trail, val |-> o.val] : o \in { x \in Ref : x.t = "ret" } }
       /\ Cardinality(Y) = Len(yielded)

\* A finished search of a choose/prune function with surviving and pruned
\* branches.
C3_Witness ==
  /\ mode = "done"
  /\ ChooseOnly
  /\ Len(yielded) >= 2
  /\ \E o \in Ref : o.t = "prune"

\* C4 as stated: results are yielded in lexicographic order of the choice
\* paths of their universes.
C4_LexOrder ==
  \A i, j \in 1..Len(yielded) :
    i < j => LexLess(PathIdx(yielded[i].path), PathIdx(yielded[j].path))

\* C4 as amended: results are yielded in the order in which the pending paths
\* their universes started from were put on the queue.
C4_FifoOrder ==
  \A i, j \in 1..Len(yielded) :
    i < j => yielded[i].serial < yielded[j].serial

\* Two results yielded against the lexicographic order of their paths.
C4_Witness ==
  \E i, j \in 1..Len(yielded) :
    /\ i < j
    /\ LexLess(PathIdx(yielded[j].path), PathIdx(yielded[i].path))

\* C5: the loop of solve() never goes on after a universe in which fn raised
\* a failure of its own: the failure leaves solve().
C5_OnlyPruneSwallowed ==
  (Cur.op = "raise_eq" /\ regs[Cur.r] = Cur.v) => mode \in { "fn", "failed" }

\* C8: the calls a universe makes while it replays its pending path are made
\* at the call sites recorded with the path, put nothing on the queue, hit
\* entries of the kind they expect, and the universe makes all of them.
C8_ReplayDeterminism ==
  /\ \A k \in 1..Len(uni.trace) :
       k <= Len(uni.start) =>
         /\ uni.trace[k].pc = uni.sites[k]
         /\ uni.trace[k].enq = 0
         /\ uni.trace[k].op = "choose" =>
              uni.trace[k].ret = fn[uni.trace[k].pc].opts[uni.start[k].v + 1]
  /\ mode = "loop" => Len(uni.trace) >= Len(uni.start)
  /\ err \notin { TypeError, AttributeError }

\* solve() is over: its loop ended with the queue empty and every path ever
\* put on the queue run once, or a failure that is not a prune left it.
Finished ==
  \/ /\ mode = "done"
     /\ choice_stack = << >>
     /\ pending = << >>
     /\ uni.nth = nenq
  \/ /\ mode = "failed"
     /\ err # PruneException

\* C16: the search of a function with a finite decision tree ends: solve()
\* empties the queue of pending paths and stops, each path put on the queue
\* having been run exactly once (or a failure ends it before).
C16_Terminates == <>Finished

\* C16 happens: a search that put several paths on the queue has run them all
\* and stopped.
C16_Witness ==
  /\ mode = "done"
  /\ nenq >= 3
  /\ uni.nth = nenq
  /\ choice_stack = << >>

\* fn is about to raise a failure of its own that is not a prune.
RaisesFailure ==
  /\ mode = "fn"
  /\ Cur.op = "raise_eq"
  /\ regs[Cur.r] = Cur.v
  /\ Cur.e # PruneException

\* C17: a failure other than prune raised by fn ends the search: the step
\* that raises it leaves solve() with that failure, the paths still pending
\* are never run, and nothing more is yielded.
C17_FailureAborts ==
  [][ /\ RaisesFailure => (mode' = "failed" /\ err' = Cur.e)
      /\ mode = "failed" => (mode' = "failed" /\ yielded' = yielded) ]_vars

\* fn is about to call choose() with no option at a call site its path does
\* not cover.
EmptyChoose ==
  /\ mode = "fn"
  /\ Cur.op = "choose"
  /\ Len(Cur.opts) = 0
  /\ choices_idx + 1 >= Len(choices)

\* C31: choose() on its first visit with no option puts no path on the
\* queue, yields nothing and leaves solve() with a failure that is not a
\* prune, after which no universe is run and nothing is yielded; inside an
\* if_any scope too, where no enclosing marker is flipped and the
\* else-block of none of them has run or runs.
C31_EmptyChoose ==
  [][ /\ EmptyChoose =>
           /\ mode' = "failed"
           /\ err' = IndexError
           /\ choice_stack' = choice_stack
           /\ nenq' = nenq
           /\ yielded' = yielded
           /\ \A i \in 1..Len(if_any_stack) :
                /\ heap'[if_any_stack[i]].val
                /\ hist[if_any_stack[i]].elseRun = 0
      /\ mode = "failed" => (mode' = "failed" /\ yielded' = yielded
                             /\ hist' = hist) ]_vars

\* C31 happens: the search has ended with the failure of a choose() without
\* options made inside an if_any scope, with paths still on the queue.
C31_Witness ==
  /\ mode = "failed"
  /\ err = IndexError
  /\ Cur.op = "choose"
  /\ Len(Cur.opts) = 0
  /\ Len(if_any_stack) > 0
  /\ choice_stack # << >>
  /\ yielded = << >>

\* fn is about to call choose() at a call site its path does not cover, with
\* at least one option.
FirstVisit ==
  /\ mode = "fn"
  /\ Cur.op = "choose"
  /\ choices_idx + 1 >= Len(choices)
  /\ Len(Cur.opts) >= 1

\* C18: on a first visit with n options choose() returns options[0], appends
\* index 0 to the path, and appends to the end of the queue the n-1 paths
\* path + [i] for i = 1..n-1, in this order; the paths that were on the queue
\* stay where they were.
C18_FirstVisit ==
  [][ FirstVisit =>
        LET n == Len(Cur.opts)
            q == Len(choice_stack)
        IN /\ uni'.trace[Len(uni'.trace)].ret = Cur.opts[1]
           /\ (Cur.r # 0 => regs'[Cur.r] = Cur.opts[1])
           /\ choices' = Append(choices, [k |-> "c", v |-> 0])
           /\ Len(choice_stack') = q + n - 1
           /\ \A i \in 1..q : choice_stack'[i] = choice_stack[i]
           /\ \A i \in 1..(n - 1) :
                choice_stack'[q + i] = Append(choices, [k |-> "c", v |-> i])
    ]_vars

\* C18 happens: a first visit with three options or more has put its paths
\* behind paths that were on the queue already.
C18_Witness ==
  /\ mode = "fn"
  /\ Len(uni.trace) > 0
  /\ LET c == uni.trace[Len(uni.trace)] IN
       /\ c.op = "choose"
       /\ c.enq >= 2
       /\ Len(choice_stack) > c.enq

\* Where the IfAny object a sits in the running path.
MarkerPos(a) == CHOOSE k \in 1..Len(choices) : choices[k] = M(a)

\* prune() is about to take the last branch of the innermost marker, which
\* is not locked.
LastBranch ==
  /\ mode = "fn" /\ Prunes
  /\ Len(if_any_stack) > 0
  /\ heap[Top(if_any_stack)].branch_count = 1
  /\ ~heap[Top(if_any_stack)].locked

\* The running universe was started from the path enqueued for the
\* else-block of the IfAny object a.
ElseUniverse(a) ==
  /\ Len(uni.start) > 0
  /\ uni.start[Len(uni.start)] = M(a)

\* The running universe has made its call at the site of the marker its
\* start path ends with, or is over.
PastMarker == mode # "fn" \/ Len(uni.trace) >= Len(uni.start)

\* What C26 says of one step.
ElsePathStep ==
  /\ LastBranch =>
       choice_stack' = Append(choice_stack,
                         SubSeq(choices, 1, MarkerPos(Top(if_any_stack))))
  /\ (mode = "fn" /\ Prunes /\ ~LastBranch) => choice_stack' = choice_stack
  /\ \A a \in 1..Len(heap) :
       (ElseUniverse(a) /\ PastMarker) =>
         /\ Len(uni.trace) >= Len(uni.start)
         /\ uni.trace[Len(uni.start)].op = "if_any"
         /\ uni.trace[Len(uni.start)].ret = FALSE
         /\ (mode = "fn" /\ Cur.op = "else_none" /\ Len(if_any_stack) > 0
             /\ Top(if_any_stack) = a) => pc' = pc + 1

\* C26: a prune() that takes the last branch of the innermost marker, not
\* locked, appends exactly one path to the tail of the queue, the running
\* path cut just after the marker, and no other prune() appends a path; in
\* the universe run from that path if_any() at the marker's site returns
\* False and the else_none() that pops the marker returns True.
C26_ElsePath == [][ElsePathStep]_vars

\* The same for functions whose pairs are not nested.
C26_ElsePathFlat == [][Flat => ElsePathStep]_vars

\* The call of if_any() about to be made replays the IfAny object a.
Replays(a) ==
  /\ mode = "fn" /\ Cur.op = "if_any"
  /\ choices_idx + 1 < Len(choices)
  /\ choices[choices_idx + 2] = M(a)

\* C27: once else_none() has run for a marker (it is locked) the marker
\* stays locked and its outcome stays what it is whatever is pruned later,
\* an outcome that is False never becomes True again, and if_any() replaying
\* a locked marker returns that outcome.
C27_LockedOutcome ==
  [][ \A a \in 1..Len(heap) :
        /\ heap[a].locked =>
             /\ heap'[a].locked
             /\ heap'[a].val = heap[a].val
             /\ Replays(a) => (mode' = "fn" /\ Top(took') = heap[a].val)
        /\ ~heap[a].val => ~heap'[a].val ]_vars

\* A locked marker whose outcome is True has lost its last branch to a prune
\* in a later universe, which replayed it with True.
C27_Witness ==
  /\ mode = "loop"
  /\ \E a \in 1..Len(heap) :
       /\ heap[a].locked /\ heap[a].val /\ heap[a].branch_count <= 0
       /\ \E k \in 1..Len(uni.start) :
            /\ k <= Len(uni.trace)
            /\ uni.start[k] = M(a)
            /\ uni.trace[k].op = "if_any" /\ uni.trace[k].ret = TRUE

\* ------------------------------------------------------ the water buckets
\* examples/buckets.py under solve(): a universe is one call of diehardn,
\* taken one turn of its loop at a time.

\* solve(diehardn, 4, 3, 5)
Target == 4

Sizes == << 3, 5 >>

Success == "Success"

\* One run of diehardn: the Solver's path, index and queue, the locals, the
\* value the last choose() returned, and how the run has ended, if it has.
Run(path, stack) ==
  [choices |-> path, choices_idx |-> -1, choice_stack |-> stack,
   buckets |-> [b \in DOMAIN Sizes |-> 0], moves |-> << >>, visited |-> {},
   val |-> 0, out |-> ""]

\* Solver.choose over n options, none of them inside an if_any().
Solver_choose(u, n) ==
  LET idx == u.choices_idx + 1 IN
  IF idx < Len(u.choices)
    THEN [u EXCEPT !.choices_idx = idx, !.val = u.choices[idx + 1].v]
    ELSE [u EXCEPT !.choices_idx = idx,
                   !.choice_stack = @ \o NewPaths(u.choices, n),
                   !.choices = Append(@, C(0)),
                   !.val = 0]

\* choose_bucket(): a bucket, counted from 1.
choose_bucket(u) ==
  LET c == Solver_choose(u, Len(Sizes)) IN [c EXCEPT !.val = @ + 1]

Move(m, b, to, n) == [m |-> m, b |-> b, to |-> to, n |-> n]

bucket_put(u, b, value) ==
  LET w == [u EXCEPT !.buckets[b] = value] IN
  IF value = Target
    THEN [w EXCEPT !.moves = Append(@, Move("done", b, b, Target)),
                   !.out = Success]
    ELSE w

empty(u, b) ==
  bucket_put([u EXCEPT !.moves = Append(@, Move("empty", b, b, 0))], b, 0)

fill(u, b) ==
  bucket_put([u EXCEPT !.moves = Append(@, Move("fill", b, b, Sizes[b]))],
             b, Sizes[b])

Min(x, y) == IF x <= y THEN x ELSE y

pour(u, b) ==
  LET c == choose_bucket(u)
      to == c.val
      poured == Min(c.buckets[b], Sizes[to] - c.buckets[to])
      m == [c EXCEPT !.moves = Append(@, Move("pour", b, to, poured))]
      p == bucket_put(m, b, m.buckets[b] - poured)
  IN IF to = b THEN [c EXCEPT !.out = PruneException]
     ELSE IF p.out # "" THEN p
     ELSE bucket_put(p, to, p.buckets[to] + poured)

\* solver.choose((empty, fill, pour))(b)
move(u, f, b) ==
  IF f = 0 THEN empty(u, b)
  ELSE IF f = 1 THEN fill(u, b)
  ELSE pour(u, b)

\* The end of a turn that goes on from a state seen before.
turn_end_forget(r) ==
  IF r.out # "" THEN r ELSE [r EXCEPT !.visited = @ \cup {r.buckets}]

\* The end of a turn of the while loop: a state seen before is a prune.
turn_end(r) ==
  IF r.out # "" THEN r
  ELSE IF r.buckets \in r.visited THEN [r EXCEPT !.out = PruneException]
  ELSE [r EXCEPT !.visited = @ \cup {r.buckets}]

\* diehardn, up to its loop.
diehardn(path, stack) ==
  LET u == Run(path, stack) IN [u EXCEPT !.visited = {u.buckets}]

BInit == run = Run(<< >>, << >>)

\* The Solver and the locals, after a step of the call that leaves u.
Stepped(u) ==
  /\ run' = u
  /\ choices' = run'.choices
  /\ choices_idx' = run'.choices_idx
  /\ choice_stack' = run'.choice_stack

\* solve(), up to its loop.
diehardn_solve ==
  /\ mode = "idle"
  /\ choice_stack' = << << >> >>
  /\ mode' = "loop"
  /\ UNCHANGED << fn, choices, choices_idx, if_any_stack, heap, pc, regs, err,
                  yielded, pending, nenq, uni, took, hist >>
  /\ UNCHANGED << svars, gvars, xvars, cvars, bvars >>

\* solve(): the loop takes the next path and calls diehardn.
diehardn_next ==
  /\ mode = "loop"
  /\ Len(choice_stack) > 0
  /\ LET i == PopIndex(choice_stack) IN
       Stepped(diehardn(choice_stack[i], Without(choice_stack, i)))
  /\ mode' = "fn"
  /\ err' = ""
  /\ UNCHANGED << fn, if_any_stack, heap, pc, regs, yielded, pending, nenq,
                  uni, took, hist >>
  /\ UNCHANGED << svars, gvars, xvars, cvars >>

\* A turn of the while loop of diehardn. After a Success the moves are
\* returned and solve() yields them; a prune is passed over by solve().
diehardn_move ==
  /\ mode = "fn"
  /\ \E f \in { Solver_choose(run, 3) } :
       \E a \in { choose_bucket(f) } :
         \E r \in { move(a, f.val, a.val) } : Stepped(turn_end(r))
  /\ mode' = IF run'.out = "" THEN "fn" ELSE "loop"
  /\ err' = IF run'.out = Success THEN "" ELSE run'.out
  /\ yielded' = IF run'.out = Success THEN Append(yielded, run'.moves)
                                      ELSE yielded
  /\ UNCHANGED << fn, if_any_stack, heap, pc, regs, pending, nenq, uni, took,
                  hist >>
  /\ UNCHANGED << svars, gvars, xvars, cvars >>

\* solve(): the loop ends.
diehardn_done ==
  /\ mode = "loop"
  /\ Len(choice_stack) = 0
  /\ mode' = "done"
  /\ UNCHANGED << fn, choice_stack, choices, choices_idx, if_any_stack, heap,
                  pc, regs, err, yielded, pending, nenq, uni, took, hist >>
  /\ UNCHANGED << svars, gvars, xvars, cvars, bvars >>

BNext ==
  \/ diehardn_solve
  \/ diehardn_next
  \/ diehardn_move
  \/ diehardn_done

\* ----------------------------------------- properties of the water buckets

\* A move of a yielded list carried out on buckets that hold bk.
Carry(bk, mv) ==
  IF mv.m = "empty" THEN [bk EXCEPT ![mv.b] = 0]
  ELSE IF mv.m = "fill" THEN [bk EXCEPT ![mv.b] = Sizes[mv.b]]
  ELSE IF mv.m = "pour" THEN [bk EXCEPT ![mv.b] = @ - mv.n, ![mv.to] = @ + mv.n]
  ELSE bk

\* The moves of a list that are not its closing "done".
Made(ms) == SelectSeq(ms, LAMBDA mv : mv.m # "done")

\* The bucket states a list of moves passes through from empty buckets, the
\* first included.
RECURSIVE Passes(_, _)
Passes(bk, ms) ==
  IF ms = << >> THEN << bk >>
  ELSE << bk >> \o Passes(Carry(bk, Head(ms)), Tail(ms))

Empty == [b \in DOMAIN Sizes |-> 0]

\* (3+1)*(5+1)
MostMoves == (Sizes[1] + 1) * (Sizes[2] + 1)

SolvesIt(ms) ==
  LET st == Passes(Empty, Made(ms)) IN
  /\ \E b \in DOMAIN Sizes : st[Len(st)][b] = Target
  /\ \A i, j \in DOMAIN st : i # j => st[i] # st[j]

BucketsSafe ==
  /\ \A k \in DOMAIN yielded : SolvesIt(yielded[k])
  /\ err \in { "", PruneException }
  /\ Len(Made(run.moves)) <= MostMoves

BucketsDone == mode = "done" /\ Len(yielded) >= 1

\* C24: solve(diehardn, 4, 3, 5) ends and has yielded a list of moves; every
\* list yielded, carried out from empty buckets, leaves 4 in a bucket and
\* passes through no bucket state twice; every universe ends in a prune or in
\* Success within (3+1)*(5+1) moves.
C24_Diehard == <>BucketsDone /\ []BucketsSafe

\* C24 happens: the search is over, universes were pruned, and lists of
\* different lengths were yielded.
C24_Witness ==
  /\ mode = "done"
  /\ err = PruneException
  /\ \E j, k \in DOMAIN yielded : Len(yielded[j]) < Len(yielded[k])

\* ------------------------------------------------------ the variable store

\* Most watches ever registered.
MaxWatch == 2

Vals == { 1, 2 }

\* The paths handed to the store: the root and a chain of three segments, as
\* in test_varstore. The root is read and watched; values are stored below it.
Paths == { << >>, << "a" >>, << "a", "b" >>, << "a", "b", "c" >> }
KeyPaths == Paths \ { << >> }

\* A container ({}) and a value.
Dir == [d |-> TRUE, v |-> 0]
Leaf(x) == [d |-> FALSE, v |-> x]

Prefix(path, n) == SubSeq(path, 1, n)
IsPrefix(q, path) == Len(q) <= Len(path) /\ Prefix(path, Len(q)) = q

\* del d[k], or d[k] = x over what was there: what hangs below goes too.
Drop(st, tp) == [q \in { q \in DOMAIN st : ~IsPrefix(tp, q) } |-> st[q]]
Store_alone(st, tp, x) ==
  [q \in { q \in DOMAIN st : IsPrefix(q, tp) } \cup { tp } |->
     IF q = tp THEN x ELSE st[q]]

Store(st, tp, x) ==
  [q \in (DOMAIN Drop(st, tp)) \cup { tp } |-> IF q = tp THEN x ELSE st[q]]

\* _traverse(): the path it notifies when it creates container k in curpath.
\* A mutant notifies the new container's own path.
MkdirsNotify_self(curpath, k) == Append(curpath, k)

MkdirsNotify(curpath, k) == curpath

\* VarStore._traverse, from its i-th segment on: the store it leaves, the
\* paths it notified, and the failure it raised.
RECURSIVE Traverse(_, _, _, _, _)
Traverse(st, path, i, mkdirs, notes) ==
  IF i > Len(path) - 1
    THEN [root |-> st, notes |-> notes, err |-> ""]
    ELSE LET curpath == Prefix(path, i - 1)
             kp == Prefix(path, i)
         IN
         IF path[i] = ""
           THEN \* assert k, "empty path in %s" % path
             [root |-> st, notes |-> notes, err |-> TypeError]
         ELSE IF kp \notin DOMAIN st
           THEN IF mkdirs
                  THEN Traverse(Store(st, kp, Dir), path, i + 1, mkdirs,
                                Append(notes, MkdirsNotify(curpath, path[i])))
                  ELSE [root |-> st, notes |-> notes, err |-> "KeyError"]
           ELSE IF ~st[kp].d
                  THEN [root |-> st, notes |-> notes, err |-> "KeyError"]
                  ELSE Traverse(st, path, i + 1, mkdirs, notes)

\* VarStore._check_watch: the watches of exactly this path.
Watchers(path) == IF path \in DOMAIN watches THEN watches[path] ELSE << >>

\* The callbacks invoked for the paths notified, in order.
RECURSIVE Callbacks(_)
Callbacks(notes) ==
  IF notes = << >> THEN << >>
  ELSE [i \in 1..Len(Watchers(Head(notes))) |->
          [w |-> Watchers(Head(notes))[i], path |-> Head(notes)]]
       \o Callbacks(Tail(notes))

Op(op, path, e, ret) ==
  [op |-> op, path |-> path, err |-> e, ret |-> ret, pre |-> root, w |-> 0]

NoRet == [d |-> FALSE, v |-> 0]

\* No _check_watch is running.
NoNote == [phase |-> "idle", path |-> << >>, i |-> 0, start |-> << >>]

SInit ==
  /\ root = << >>
  /\ watches = << >>
  /\ wpath = << >>
  /\ notified = << >>
  /\ last = [op |-> "", path |-> << >>, err |-> "", ret |-> NoRet,
             pre |-> << >>, w |-> 0]
  /\ unwatched = {}
  /\ note = NoNote

\* VarStore.put
put(path, val) ==
  LET t == Traverse(root, path, 1, TRUE, << >>) IN
  /\ IF t.err # ""
       THEN /\ root' = t.root
            /\ notified' = Callbacks(t.notes)
       ELSE /\ root' = Store(t.root, path, Leaf(val))
            /\ notified' = Callbacks(Append(t.notes, path))
  /\ last' = Op("put", path, t.err, Leaf(val))
  /\ UNCHANGED << watches, wpath >>
  /\ UNCHANGED << unwatched, note >>
  /\ UNCHANGED << evars, gvars, xvars, cvars, bvars >>

\* VarStore.rm
rm(path) ==
  LET t == Traverse(root, path, 1, FALSE, << >>)
      e == IF t.err # "" THEN t.err
           ELSE IF path \notin DOMAIN root THEN "KeyError" ELSE ""
  IN
  /\ IF e # ""
       THEN /\ root' = t.root
            /\ notified' = Callbacks(t.notes)
       ELSE /\ root' = Drop(root, path)
            /\ notified' = Callbacks(Append(t.notes, path))
  /\ last' = Op("rm", path, e, NoRet)
  /\ UNCHANGED << watches, wpath >>
  /\ UNCHANGED << unwatched, note >>
  /\ UNCHANGED << evars, gvars, xvars, cvars, bvars >>

\* VarStore.mkdir
mkdir(path) ==
  LET t == Traverse(root, path, 1, TRUE, << >>)
      tp == path
      e == IF t.err # "" THEN t.err
           ELSE IF tp \in DOMAIN t.root /\ ~t.root[tp].d THEN "KeyError" ELSE ""
  IN
  /\ IF e = "" /\ tp \notin DOMAIN t.root
       THEN /\ root' = Store(t.root, tp, Dir)
            /\ notified' = Callbacks(Append(t.notes, path))
       ELSE /\ root' = t.root
            /\ notified' = Callbacks(t.notes)
  /\ last' = Op("mkdir", path, e, NoRet)
  /\ UNCHANGED << watches, wpath >>
  /\ UNCHANGED << unwatched, note >>
  /\ UNCHANGED << evars, gvars, xvars, cvars, bvars >>

\* VarStore.clear
clear(path) ==
  LET t == Traverse(root, path, 1, FALSE, << >>) IN
  /\ root' = IF t.err = "" /\ path \in DOMAIN root
               THEN Drop(root, path) ELSE root
  /\ notified' = << >>
  /\ last' = Op("clear", path, t.err, NoRet)
  /\ UNCHANGED << watches, wpath >>
  /\ UNCHANGED << unwatched, note >>
  /\ UNCHANGED << evars, gvars, xvars, cvars, bvars >>

\* What get(path) raises: KeyError for a path that is not there.
GetErr(path) ==
  IF path = << >> THEN ""
  ELSE LET t == Traverse(root, path, 1, FALSE, << >>) IN
       IF t.err # "" THEN t.err
       ELSE IF path \notin DOMAIN root THEN "KeyError" ELSE ""

\* VarStore.get
get(path) ==
  /\ last' = Op("get", path, GetErr(path),
               IF GetErr(path) = "" /\ path # << >> THEN root[path] ELSE Dir)
  /\ notified' = << >>
  /\ UNCHANGED << root, watches, wpath >>
  /\ UNCHANGED << unwatched, note >>
  /\ UNCHANGED << evars, gvars, xvars, cvars, bvars >>

\* VarStore.ls: the keys of a value are an AttributeError.
ls(path) ==
  /\ last' = Op("ls", path,
               IF GetErr(path) # "" THEN GetErr(path)
               ELSE IF path # << >> /\ ~root[path].d THEN "AttributeError" ELSE "",
               NoRet)
  /\ notified' = << >>
  /\ UNCHANGED << root, watches, wpath >>
  /\ UNCHANGED << unwatched, note >>
  /\ UNCHANGED << evars, gvars, xvars, cvars, bvars >>

\* VarStore.watch
watch(path) ==
  /\ Len(wpath) < MaxWatch
  /\ IF GetErr(path) # ""
       THEN UNCHANGED << watches, wpath >>
       ELSE /\ wpath' = Append(wpath, path)
            /\ watches' = [q \in (DOMAIN watches) \cup { path } |->
                             IF q = path THEN Append(Watchers(path), Len(wpath) + 1)
                                         ELSE watches[q]]
  /\ last' = Op("watch", path, GetErr(path), NoRet)
  /\ notified' = << >>
  /\ UNCHANGED root
  /\ UNCHANGED << unwatched, note >>
  /\ UNCHANGED << evars, gvars, xvars, cvars, bvars >>

\* list.pop() in the place of list.remove(x).
Remove_pop(l, x) == SubSeq(l, 1, Len(l) - 1)

\* list.remove(x): the list without its first x.
Remove(l, x) ==
  LET i == CHOOSE i \in 1..Len(l) : l[i] = x /\ \A j \in 1..(i - 1) : l[j] # x
  IN [j \in 1..(Len(l) - 1) |-> IF j < i THEN l[j] ELSE l[j + 1]]

\* VarStore.unwatch, of a VarWatch that watch() has returned.
unwatch(w) ==
  LET path == wpath[w]
      e == IF path \notin DOMAIN watches THEN "AttributeError"
           ELSE IF \A i \in 1..Len(watches[path]) : watches[path][i] # w
             THEN "ValueError" ELSE ""
  IN
  /\ watches' = IF e = "" THEN [watches EXCEPT ![path] = Remove(@, w)] ELSE watches
  /\ unwatched' = IF e = "" THEN unwatched \cup {w} ELSE unwatched
  /\ last' = [Op("unwatch", path, e, NoRet) EXCEPT !.w = w]
  /\ notified' = << >>
  /\ UNCHANGED << root, wpath, note >>
  /\ UNCHANGED << evars, gvars, xvars, cvars, bvars >>

\* VarStore.put whose callbacks are let run one by one: the value is stored
\* and _check_watch(path) starts its loop over self.watches[path]. The puts
\* taken are those that find every container of the path in place.
put_check_watch(path, val) ==
  LET t == Traverse(root, path, 1, TRUE, << >>) IN
  /\ note.phase = "idle"
  /\ t.err = "" /\ t.notes = << >>
  /\ root' = Store(t.root, path, Leaf(val))
  /\ notified' = << >>
  /\ last' = Op("put", path, "", Leaf(val))
  /\ note' = [phase |-> "loop", path |-> path, i |-> 0, start |-> Watchers(path)]
  /\ UNCHANGED << watches, wpath, unwatched >>
  /\ UNCHANGED << evars, gvars, xvars, cvars, bvars >>

\* for watch in ...: the loop is at a VarWatch of the list it iterates, by
\* position in the list as it is now.
AtWatch == note.phase = "loop" /\ note.i < Len(Watchers(note.path))

\* watch.func(path), for a callback that leaves the store alone.
watch_func ==
  /\ AtWatch
  /\ notified' = Append(notified, [w |-> Watchers(note.path)[note.i + 1],
                                   path |-> note.path])
  /\ note' = [note EXCEPT !.i = @ + 1]
  /\ UNCHANGED << root, watches, wpath, last, unwatched >>
  /\ UNCHANGED << evars, gvars, xvars, cvars, bvars >>

\* watch.func(path), for a callback that calls unwatch(k) of a VarWatch
\* registered on the same path, its own or another.
watch_func_unwatch(k) ==
  /\ AtWatch
  /\ wpath[k] = note.path
  /\ \E j \in 1..Len(Watchers(note.path)) : Watchers(note.path)[j] = k
  /\ notified' = Append(notified, [w |-> Watchers(note.path)[note.i + 1],
                                   path |-> note.path])
  /\ watches' = [watches EXCEPT ![note.path] = Remove(@, k)]
  /\ unwatched' = unwatched \cup { k }
  /\ note' = [note EXCEPT !.i = @ + 1]
  /\ UNCHANGED << root, wpath, last >>
  /\ UNCHANGED << evars, gvars, xvars, cvars, bvars >>

\* The for loop finds no element at its position and ends.
check_watch_end ==
  /\ note.phase = "loop"
  /\ ~AtWatch
  /\ note' = [note EXCEPT !.phase = "idle"]
  /\ UNCHANGED << root, watches, wpath, notified, last, unwatched >>
  /\ UNCHANGED << evars, gvars, xvars, cvars, bvars >>

NNext ==
  \/ \E path \in KeyPaths, val \in Vals : put_check_watch(path, val)
  \/ watch_func
  \/ \E k \in 1..Len(wpath) : watch_func_unwatch(k)
  \/ check_watch_end
  \/ note.phase = "idle" /\ \E path \in KeyPaths : watch(path)

\* Paths that branch: one and two segments, with siblings.
TreePaths == { << "a" >>, << "d" >>, << "a", "b" >>, << "a", "d" >>,
               << "d", "", "b" >> }

TNext ==
  \/ \E path \in TreePaths, val \in Vals : put(path, val)
  \/ \E path \in TreePaths : rm(path)
  \/ \E path \in TreePaths : mkdir(path)
  \/ \E path \in TreePaths : clear(path)

SNext ==
  \/ \E path \in KeyPaths, val \in Vals : put(path, val)
  \/ \E path \in KeyPaths : rm(path)
  \/ \E path \in KeyPaths : mkdir(path)
  \/ \E path \in KeyPaths : clear(path)
  \/ \E path \in Paths : get(path)
  \/ \E path \in Paths : ls(path)
  \/ \E path \in Paths : watch(path)
  \/ \E w \in 1..Len(wpath) : unwatch(w)

\* ------------------------------------------ properties of the variable store

Mutation == last.op \in { "put", "rm", "mkdir" }

\* The path the watch invoked by the i-th callback is registered on.
NotifiedPath(i) == wpath[notified[i].w]

\* C6 as stated: put, rm and mkdir at path P invoke only watches registered
\* on exactly P.
C6_OnlyExactPath ==
  Mutation => \A i \in 1..Len(notified) : NotifiedPath(i) = last.path

\* C6 as amended: put, rm and mkdir at path P invoke only watches registered
\* on exactly P and, for a put or mkdir, watches registered on the container
\* in which a missing intermediate container of P was created; no watch on a
\* descendant of P or on any other path is invoked.
C6_ExactOrCreatedIn ==
  Mutation =>
    \A i \in 1..Len(notified) :
      LET q == NotifiedPath(i) IN
      \/ q = last.path
      \/ /\ last.op \in { "put", "mkdir" }
         /\ Len(q) <= Len(last.path) - 2
         /\ IsPrefix(q, last.path)
         /\ Prefix(last.path, Len(q) + 1) \notin DOMAIN last.pre
         /\ Prefix(last.path, Len(q) + 1) \in DOMAIN root

\* A put that created an intermediate container and invoked a watch on the
\* container it created it in, while a watch on another path stayed silent.
C6_Witness ==
  /\ last.op = "put"
  /\ last.err = ""
  /\ \E i \in 1..Len(notified) : Len(NotifiedPath(i)) < Len(last.path)
  /\ \E w \in 1..Len(wpath) :
       /\ \E j \in 1..Len(Watchers(wpath[w])) : Watchers(wpath[w])[j] = w
       /\ \A i \in 1..Len(notified) : notified[i].w # w

\* C7: a put of a value at a path that holds a container, a mkdir at a path
\* that holds a value, and a put or mkdir through a path that holds a value
\* all fail and leave what that path holds as it was.
C7_TypeConflict ==
  /\ (/\ last.op = "put"
      /\ last.path \in DOMAIN last.pre
      /\ last.pre[last.path].d)
       => (last.err # "" /\ root = last.pre)
  /\ (/\ last.op = "mkdir"
      /\ last.path \in DOMAIN last.pre
      /\ ~last.pre[last.path].d)
       => (last.err # "" /\ root = last.pre)
  /\ \A n \in 1..(Len(last.path) - 1) :
       (/\ last.op \in { "put", "mkdir" }
        /\ Prefix(last.path, n) \in DOMAIN last.pre
        /\ ~last.pre[Prefix(last.path, n)].d)
         => (last.err # "" /\ root = last.pre)

\* The VarWatch w is in the list of its path.
Registered(w) == \E j \in 1..Len(Watchers(wpath[w])) : Watchers(wpath[w])[j] = w

C29_KeyErrorChangesNothing ==
  [][ last'.err \in { "KeyError", AttributeError, ValueError } =>
        (root' = root /\ watches' = watches /\ notified' = << >>) ]_vars

\* How often the running notification has invoked the VarWatch w.
Invoked(w) == Cardinality({ i \in 1..Len(notified) : notified[i].w = w })

\* C30: when the notification of a path ends, every VarWatch that was on the
\* path when it started and that no callback has removed was invoked exactly
\* once, whatever the callbacks unwatched on the way.
C30_UnwatchWhileNotifying ==
  [][ (note.phase = "loop" /\ note'.phase = "idle") =>
        \A j \in 1..Len(note.start) :
          Registered(note.start[j]) => Invoked(note.start[j]) = 1 ]_vars

\* C28: unwatch() of a VarWatch that is no longer registered raises nothing
\* and leaves the watches of every path as they are.
C28_SecondUnwatch ==
  [][ (last'.op = "unwatch" /\ ~Registered(last'.w)) =>
        (last'.err = "" /\ watches' = watches) ]_vars

\* The last operation stored or deleted something at its path: a put or rm
\* that succeeded, or a mkdir that made the container.
Stored ==
  /\ last.err = ""
  /\ \/ last.op \in { "put", "rm" }
     \/ last.op = "mkdir" /\ last.path \notin DOMAIN last.pre

\* C21: no put, rm or mkdir invokes the callback of a VarWatch that unwatch()
\* has removed, and one that stores or deletes something at a path invokes
\* every VarWatch made on that path and not removed.
C21_UnwatchedSilent ==
  Mutation =>
    /\ \A i \in 1..Len(notified) : notified[i].w \notin unwatched
    /\ Stored =>
         \A w \in 1..Len(wpath) :
           (wpath[w] = last.path /\ w \notin unwatched) =>
             \E i \in 1..Len(notified) : notified[i].w = w

\* C21 happens: of two watches on the path of a put, one was removed and
\* stayed silent, the other was invoked.
C21_Witness ==
  /\ last.op = "put"
  /\ last.err = ""
  /\ \E w \in unwatched : wpath[w] = last.path
  /\ \E i \in 1..Len(notified) : wpath[notified[i].w] = last.path

\* The last operation changed what its path holds: Stored, or a clear of a
\* path that was there.
Changed ==
  \/ Stored
  \/ last.op = "clear" /\ last.err = "" /\ last.path \in DOMAIN last.pre

\* C22: a put, rm, mkdir or clear that changes what the path P holds invokes
\* each VarWatch in the list of P exactly once, for P, before it returns.
C22_MutationNotifies ==
  Changed =>
    \A j \in 1..Len(Watchers(last.path)) :
      Cardinality({ i \in 1..Len(notified) :
                      /\ notified[i].w = Watchers(last.path)[j]
                      /\ notified[i].path = last.path }) = 1

\* ls(q): the paths of the children of the container at q.
Children(st, q) ==
  { c \in DOMAIN st : Len(c) = Len(q) + 1 /\ IsPrefix(q, c) }

\* Neither a prefix nor an extension of P.
Unrelated(q, P) == ~IsPrefix(q, P) /\ ~IsPrefix(P, q)

\* C23: after a put(P, v) that succeeded, get(P) gives v, every proper prefix
\* of P is a container with the next segment of P among its children, and
\* every path that is neither a prefix nor an extension of P holds what it
\* held before.
C23_PutThenGet ==
  (last.op = "put" /\ last.err = "") =>
    LET P == last.path IN
    /\ GetErr(P) = ""
    /\ root[P] = last.ret
    /\ \A n \in 1..(Len(P) - 1) :
         /\ Prefix(P, n) \in DOMAIN root
         /\ root[Prefix(P, n)].d
         /\ Prefix(P, n + 1) \in Children(root, Prefix(P, n))
    /\ \A q \in (DOMAIN root) \cup (DOMAIN last.pre) :
         Unrelated(q, P) =>
           /\ q \in DOMAIN root
           /\ q \in DOMAIN last.pre
           /\ root[q] = last.pre[q]

\* C23 happens: a put made the container above its path, beside a path that
\* held a value before and holds it still.
C23_Witness ==
  /\ last.op = "put"
  /\ last.err = ""
  /\ Len(last.path) = 2
  /\ Prefix(last.path, 1) \notin DOMAIN last.pre
  /\ \E q \in DOMAIN root : Unrelated(q, last.path) /\ ~root[q].d

\* ------------------------------------------------------ the predicate graph

\* The predicate keys: a predicate is called without arguments here, so its
\* key (pred_name) is its function's name.
Names == {"a", "b", "c"}

\* Largest depth a Predicate is let reach (require_pred only ever raises it).
MaxDepth == 2

KeyError == "KeyError"
RecursionError == "RecursionError"
None == "None"
Returned == "ret"

\* A predicate's function: the predicates its body requires, in order, and
\* whether it then calls env.prune() (as host_require does) or returns.
PredFunc(reqs, prunes) == [reqs |-> reqs, prunes |-> prunes]

PredFuncs(name) ==
  { PredFunc(<< >>, p) : p \in BOOLEAN }
    \cup { PredFunc(<< x >>, FALSE) : x \in Names \ {name} }

\* The interpreter gives up (RecursionError) on a chain of check() calls this
\* long: longer than any chain that enters no predicate twice.
RecursionLimit == Cardinality(Names) + 1

\* Predicate.__init__
Predicate ==
  [children |-> {}, parents |-> {}, depth |-> 0,
   failed |-> FALSE, solved |-> FALSE, ret |-> None]

Max(x, y) == IF x >= y THEN x ELSE y

RangeOf(l) == { l[i] : i \in DOMAIN l }

\* Predicate.require_pred: self requires p.
require_pred(P, self, p) ==
  [P EXCEPT ![self].children = @ \cup {p},
            ![p].depth = Max(P[self].depth + 1, @),
            ![p].parents = @ \cup {self}]

\* Predicate.parent_remove: p is taken out of self.parents.
parent_remove(P, self, p) == [P EXCEPT ![self].parents = @ \ {p}]

\* Predicate.unsolved
Predicate_unsolved(P, name) ==
  [P EXCEPT ![name].failed = FALSE, ![name].solved = FALSE, ![name].ret = None]

\* The fields of the Env that a pass changes.
Env(P, u, srt) == [predicates |-> P, unsolved |-> u, unsolved_sorted |-> srt]

\* A set of names as a list, in one fixed order: Env.unsolved is a set until
\* unsolved_choose sorts it, so the order of an unsorted worklist means nothing.
ListOf(S) == SelectSeq(<< "a", "b", "c" >>, LAMBDA x : x \in S)

\* Env.unsolved_add
unsolved_add(E, name) ==
  Env(Predicate_unsolved(E.predicates, name),
      ListOf(RangeOf(E.unsolved) \cup {name}), FALSE)

\* Env._solve_me: for parent_name in pred.parents: self.unsolved_add(...)
unsolved_add_all_skip(E, names) == E

RECURSIVE unsolved_add_all(_, _)
unsolved_add_all(E, names) ==
  IF names = {} THEN E
  ELSE LET x == CHOOSE y \in names : TRUE
       IN unsolved_add_all(unsolved_add(E, x), names \ {x})

\* Nothing was called yet: the history at the start of a pass. inv counts
\* the calls of each function, hit the requires answered from the memo, and
\* at_inv, at_hit keep both as they were when if_any() was called.
NoCalls ==
  [inv |-> [n \in Names |-> 0], hit |-> {},
   at_inv |-> [n \in Names |-> 0], at_hit |-> {}]

\* An activation of Predicate.check: entered, or in the predicate's function
\* with the requirements still to make.
Frame(name) == [pred |-> name, stage |-> "enter", todo |-> << >>]

InBody(name, reqs) == [pred |-> name, stage |-> "body", todo |-> reqs]

TopFrame == frames[Len(frames)]

\* sorted(self.unsolved, key=depth): the orders an ascending sort of the
\* worklist can give (a sort leaves the order of equal depths to the set).
Sorts(P, u) ==
  { l \in [1..Len(u) -> RangeOf(u)] :
      /\ \A i, j \in 1..Len(u) : i # j => l[i] # l[j]
      /\ \A i, j \in 1..Len(u) : i < j => P[l[i]].depth <= P[l[j]].depth }

\* self.unsolved.pop() takes the entry at the end of the list.
WorklistPop_front(l) == 1

WorklistPop(l) == Len(l)

\* Env.unsolved_choose, the while loop: pop entries while they have the depth
\* of the first one popped; an entry of another depth is put back.
RECURSIVE Popped(_, _, _, _)
Popped(P, l, depth, acc) ==
  IF l = << >> THEN [preds |-> acc, rest |-> l]
  ELSE LET i == WorklistPop(l)
           x == l[i]
           d == IF depth = -1 THEN P[x].depth ELSE depth
       IN IF P[x].depth # d
            THEN [preds |-> acc, rest |-> Append(Without(l, i), x)]
            ELSE Popped(P, Without(l, i), d, Append(acc, x))

\* The Env object solve() is called on, and the one solve_fn makes.
Self == "self"

Clone == "env"

\* clone() returning the Env it is called on.
clone_self(e) == e

\* Env.clone: a new Env object.
clone(e) == Clone

\* A step that ran on the Env object e has written the baseline only if e is
\* the object solve() is called on.
Written(e) ==
  baseline' = IF e = Self
                THEN Env(predicates', unsolved', unsolved_sorted')
                ELSE baseline

\* The Env a new graph starts from: the predicate functions registered, no
\* instance yet.
GInit ==
  /\ pred_funcs \in { f \in [Names -> UNION { PredFuncs(n) : n \in Names }] :
                        \A n \in Names : f[n] \in PredFuncs(n) }
  /\ predicates = << >>
  /\ unsolved = << >>
  /\ unsolved_sorted = TRUE
  /\ pred_stack = << >>
  /\ solver = FALSE
  /\ gpc = "base"
  /\ frames = << >>
  /\ preds = << >>
  /\ pred = ""
  /\ saved = Env(<< >>, << >>, TRUE)
  /\ gerr = ""
  /\ round = [pool |-> << >>, resorted |-> FALSE]
  /\ calls = NoCalls
  /\ env = Self
  /\ baseline = Env(predicates, unsolved, unsolved_sorted)

\* Env.predicate_define: register func under func_name; the instances made
\* from it are unsolved again.
predicate_define(func_name, func) ==
  /\ gpc = "base"
  /\ pred_funcs' = [pred_funcs EXCEPT ![func_name] = func]
  /\ LET E0 == Env(predicates, unsolved, unsolved_sorted)
         E == IF func_name \in DOMAIN predicates
                THEN unsolved_add(E0, func_name) ELSE E0
     IN /\ predicates' = E.predicates
        /\ unsolved' = E.unsolved
        /\ unsolved_sorted' = E.unsolved_sorted
  /\ UNCHANGED << pred_stack, solver, gpc, frames, preds, pred, saved, gerr,
                  round >>
  /\ UNCHANGED calls
  /\ env' = env
  /\ Written(env)
  /\ UNCHANGED << evars, svars, xvars, cvars, bvars >>

\* The memo test of predicate_instantiate (not pred.solved) and of check
\* (self.solved).
IsSolved_never(p) == FALSE

IsSolved(p) == p.solved

\* The requirement is made at the root: no predicate is being solved. The
\* root is not an instance of the graph, so no link is recorded for it.
AtRoot == pred_stack = << >>

\* A failure other than prune leaves _solve_me.
Aborts(P, kind) ==
  /\ predicates' = P
  /\ gpc' = "abort"
  /\ gerr' = kind
  /\ UNCHANGED << frames, pred_stack, unsolved, unsolved_sorted, calls >>

\* Env.predicate_instantiate: find or create the instance, make the current
\* predicate depend on it, and check it (solving) or put it on the worklist.
predicate_instantiate(name) ==
  /\ \/ gpc = "base"
     \/ /\ gpc = "check"
        /\ TopFrame.stage = "body"
        /\ TopFrame.todo # << >>
        /\ name = Head(TopFrame.todo)
  /\ LET P1 == IF name \in DOMAIN predicates THEN predicates
               ELSE predicates @@ (name :> Predicate)
         P2 == IF AtRoot THEN P1
               ELSE require_pred(P1, Top(pred_stack), name)
         back == [frames EXCEPT ![Len(frames)].todo = Tail(@)]
     IN /\ P2[name].depth <= MaxDepth
        /\ IF solver
             THEN IF ~IsSolved(P2[name])
                    THEN IF Len(frames) >= RecursionLimit
                           THEN Aborts(P2, RecursionError)
                           ELSE /\ predicates' = P2
                                /\ pred_stack' = Append(pred_stack, name)
                                /\ frames' = Append(back, Frame(name))
                                /\ UNCHANGED << unsolved, unsolved_sorted,
                                                gpc, gerr, calls >>
                    ELSE /\ predicates' = P2
                         /\ frames' = back
                         /\ calls' = [calls EXCEPT !.hit = @ \cup {name}]
                         /\ UNCHANGED << unsolved, unsolved_sorted, gpc, gerr,
                                         pred_stack >>
             ELSE LET E == unsolved_add(Env(P2, unsolved, unsolved_sorted),
                                        name)
                  IN /\ predicates' = E.predicates
                     /\ unsolved' = E.unsolved
                     /\ unsolved_sorted' = E.unsolved_sorted
                     /\ UNCHANGED << frames, gpc, gerr, pred_stack, calls >>
  /\ UNCHANGED << pred_funcs, solver, preds, pred, saved, round >>
  /\ env' = env
  /\ Written(env)
  /\ UNCHANGED << evars, svars, xvars, cvars, bvars >>

\* Env.solve, solve_fn: a pass starts on the Env with the Solver attached.
Env_solve ==
  /\ gpc = "base"
  /\ solver' = TRUE
  /\ gpc' = "loop"
  /\ UNCHANGED << pred_funcs, predicates, unsolved, unsolved_sorted,
                  pred_stack, frames, preds, pred, saved, gerr, round >>
  /\ calls' = NoCalls
  /\ env' = clone(env)
  /\ Written(env')
  /\ UNCHANGED << evars, svars, xvars, cvars, bvars >>

\* Env._solve_me, a round: unsolved_choose picks pred, if_any() opens the
\* scope pred.check runs in.
unsolved_choose ==
  /\ gpc = "loop"
  /\ unsolved # << >>
  /\ \E l \in (IF unsolved_sorted THEN {unsolved}
               ELSE Sorts(predicates, unsolved)) :
       LET g == Popped(predicates, l, -1, << >>) IN
       \E k \in DOMAIN g.preds :
         /\ preds' = g.preds
         /\ pred' = g.preds[k]
         /\ unsolved' = g.rest
         /\ saved' = Env(predicates, g.rest, TRUE)
         /\ frames' = << Frame(g.preds[k]) >>
         /\ round' = [pool |-> l, resorted |-> ~unsolved_sorted]
  /\ unsolved_sorted' = TRUE
  /\ gpc' = "check"
  /\ UNCHANGED << pred_funcs, predicates, pred_stack, solver, gerr >>
  /\ calls' = [calls EXCEPT !.at_inv = calls.inv, !.at_hit = calls.hit]
  /\ env' = env
  /\ Written(env)
  /\ UNCHANGED << evars, svars, xvars, cvars, bvars >>

\* Env._solve_me: the worklist is empty, solve_fn returns the Env and
\* solve() yields it.
solve_yield ==
  /\ gpc = "loop"
  /\ unsolved = << >>
  /\ gpc' = "yield"
  /\ UNCHANGED << pred_funcs, predicates, unsolved, unsolved_sorted,
                  pred_stack, solver, frames, preds, pred, saved, gerr, round >>
  /\ UNCHANGED calls
  /\ env' = env
  /\ Written(env)
  /\ UNCHANGED << evars, svars, xvars, cvars, bvars >>

\* Env.prune inside the if_any scope of a round: the universe ends, and as it
\* was the only one of the scope, the universe of the else-block starts, with
\* the Env as it was when if_any() was called.
Env_prune ==
  /\ predicates' = saved.predicates
  /\ unsolved' = saved.unsolved
  /\ unsolved_sorted' = saved.unsolved_sorted
  /\ frames' = << >>
  /\ pred_stack' = << >>
  /\ gpc' = "else"
  /\ calls' = [calls EXCEPT !.inv = calls.at_inv, !.hit = calls.at_hit]
  /\ UNCHANGED gerr

\* An activation of check returns: to predicate_instantiate, which pops
\* pred_stack, or to _solve_me, where else_none() closes the scope.
Returns(P) ==
  /\ predicates' = P
  /\ frames' = Pop(frames)
  /\ pred_stack' = IF Len(frames) > 1 THEN Pop(pred_stack) ELSE pred_stack
  /\ gpc' = IF Len(frames) = 1 THEN "loop" ELSE "check"
  /\ UNCHANGED << unsolved, unsolved_sorted, gerr, calls >>

\* Predicate.check up to the call of the function: prune if failed, the
\* memoized value if solved, else detach from the children.
check ==
  /\ gpc = "check"
  /\ TopFrame.stage = "enter"
  /\ LET name == TopFrame.pred
         me == predicates[name]
         gone == { c \in me.children : name \notin predicates[c].parents }
         Detached(D) == [c \in DOMAIN predicates |->
                           IF c \in D THEN parent_remove(predicates, c, name)[c]
                           ELSE predicates[c]]
     IN IF me.failed THEN Env_prune
        ELSE IF IsSolved(me) THEN Returns(predicates)
        ELSE IF gone # {}
          THEN \E D \in SUBSET (me.children \ gone) :
                 Aborts(Detached(D), KeyError)
          ELSE /\ predicates' = Detached(me.children)
               /\ frames' = [frames EXCEPT ![Len(frames)] =
                               InBody(name, pred_funcs[name].reqs)]
               /\ calls' = [calls EXCEPT !.inv[name] = @ + 1]
               /\ UNCHANGED << pred_stack, gpc, unsolved, unsolved_sorted,
                               gerr >>
  /\ UNCHANGED << pred_funcs, solver, preds, pred, saved, round >>
  /\ env' = env
  /\ Written(env)
  /\ UNCHANGED << evars, svars, xvars, cvars, bvars >>

\* Predicate.check, the function is done: it pruned, or its value is kept.
check_return ==
  /\ gpc = "check"
  /\ TopFrame.stage = "body"
  /\ TopFrame.todo = << >>
  /\ LET name == TopFrame.pred IN
     IF pred_funcs[name].prunes THEN Env_prune
     ELSE Returns([predicates EXCEPT ![name].ret = Returned,
                                     ![name].solved = TRUE])
  /\ UNCHANGED << pred_funcs, solver, preds, pred, saved, round >>
  /\ env' = env
  /\ Written(env)
  /\ UNCHANGED << evars, svars, xvars, cvars, bvars >>

\* Env.failed: the predicate is marked failed.
failed(P, name) == [P EXCEPT ![name].failed = TRUE]

\* Env._solve_me, the else-block: pred failed, its parents are unsolved again.
solve_else ==
  /\ gpc = "else"
  /\ LET P1 == failed(predicates, pred)
         E == unsolved_add_all(Env(P1, unsolved, unsolved_sorted),
                               P1[pred].parents)
     IN /\ predicates' = E.predicates
        /\ unsolved' = E.unsolved
        /\ unsolved_sorted' = E.unsolved_sorted
  /\ gpc' = "loop"
  /\ UNCHANGED << pred_funcs, pred_stack, solver, frames, preds, pred, saved,
                  gerr, round >>
  /\ UNCHANGED calls
  /\ env' = env
  /\ Written(env)
  /\ UNCHANGED << evars, svars, xvars, cvars, bvars >>

\* The caller promotes the Env a pass yielded to the baseline: no Solver is
\* attached to it until the next solve().
apply ==
  /\ gpc = "yield"
  /\ gpc' = "base"
  /\ solver' = FALSE
  /\ preds' = << >>
  /\ pred' = ""
  /\ saved' = Env(<< >>, << >>, TRUE)
  /\ round' = [pool |-> << >>, resorted |-> FALSE]
  /\ UNCHANGED << pred_funcs, predicates, unsolved, unsolved_sorted,
                  pred_stack, frames, gerr >>
  /\ calls' = NoCalls
  /\ env' = Self
  /\ Written(env')
  /\ UNCHANGED << evars, svars, xvars, cvars, bvars >>

GNext ==
  \/ \E n \in Names : \E f \in PredFuncs(n) : predicate_define(n, f)
  \/ \E n \in Names : predicate_instantiate(n)
  \/ Env_solve
  \/ unsolved_choose
  \/ solve_yield
  \/ check
  \/ check_return
  \/ solve_else
  \/ apply

\* Predicate.require, used on its own: self requires p, for instances that
\* exist already. The requirements made never close a cycle.
RECURSIVE Requires(_, _, _, _)
Requires(P, x, y, n) ==
  \/ x = y
  \/ /\ n > 0
     /\ \E z \in P[x].children : Requires(P, z, y, n - 1)

\* The instances the requirements are made between.
Instances == Names \cup {"d"}

RInit ==
  /\ pred_funcs = << >>
  /\ predicates = [n \in Instances |-> Predicate]
  /\ unsolved = << >>
  /\ unsolved_sorted = TRUE
  /\ pred_stack = << >>
  /\ solver = FALSE
  /\ gpc = "require"
  /\ frames = << >>
  /\ preds = << >>
  /\ pred = ""
  /\ saved = Env(<< >>, << >>, TRUE)
  /\ gerr = ""
  /\ round = [pool |-> << >>, resorted |-> FALSE]
  /\ calls = NoCalls
  /\ env = Self
  /\ baseline = Env(predicates, unsolved, unsolved_sorted)

require(self, p) ==
  /\ gpc = "require"
  /\ ~Requires(predicates, p, self, Cardinality(Instances))
  /\ predicates' = require_pred(predicates, self, p)
  /\ UNCHANGED << pred_funcs, unsolved, unsolved_sorted, pred_stack, solver,
                  gpc, frames, preds, pred, saved, gerr, round >>
  /\ UNCHANGED calls
  /\ env' = env
  /\ Written(env)
  /\ UNCHANGED << evars, svars, xvars, cvars, bvars >>

RNext == \E self \in Instances : \E p \in Instances : require(self, p)

\* ------------------------------------------------------- the variable sets
\* class Vars: a dict of its own items with a parent to fall back on. The
\* parent is kept as a field here; the names written are other than "parent".

\* Largest number of Vars objects made.
MaxVars == 2

VarNames == {"x"}

VarValues == {1, 2}

\* parent=None: the Vars objects are numbered from 1.
NoParent == 0

\* What a dict holds for a name, and what a lookup gives: a value, the marker
\* Vars.DELETED, nothing (the name is not a key), or AttributeError raised.
Slot(kind, value) == [kind |-> kind, value |-> value]

Value(v) == Slot("value", v)

DELETED == Slot("DELETED", 0)

NoItem == Slot("none", 0)

Raises(kind) == Slot(kind, 0)

\* Vars.__init__
Vars(parent) == [parent |-> parent, items |-> [k \in VarNames |-> NoItem]]

\* The item written in the parent when there is one.
setitem_parent(h, self, name, value) ==
  LET o == IF h[self].parent = NoParent THEN self ELSE h[self].parent IN
  [h EXCEPT ![o].items[name] = value]

\* dict.__setitem__ on the object self: self[name] = value
setitem(h, self, name, value) == [h EXCEPT ![self].items[name] = value]

\* Vars.__getattr__: the value of name seen through the object self, or
\* AttributeError.
RECURSIVE Vars_getattr(_, _, _)
Vars_getattr(h, self, name) ==
  IF h[self].items[name] # NoItem
    THEN IF h[self].items[name] = DELETED
           THEN Raises(AttributeError)
           ELSE h[self].items[name]
    ELSE IF h[self].parent # NoParent
           THEN Vars_getattr(h, h[self].parent, name)
           ELSE Raises(AttributeError)

VInit == vheap = << Vars(NoParent) >> /\ vself = NoParent /\ watching = {}

\* Vars.clone
Vars_clone(self) ==
  /\ Len(vheap) < MaxVars
  /\ vheap' = Append(vheap, Vars(self))
  /\ vself' = NoParent
  /\ UNCHANGED watching
  /\ UNCHANGED << evars, svars, gvars, cvars, bvars >>

\* Vars.__setattr__
Vars_setattr(self, name, value) ==
  /\ vheap' = setitem(vheap, self, name, Value(value))
  /\ vself' = self
  /\ UNCHANGED watching
  /\ UNCHANGED << evars, svars, gvars, cvars, bvars >>

\* Vars.__delattr__
Vars_delattr(self, name) ==
  /\ vheap' = setitem(vheap, self, name, DELETED)
  /\ vself' = self
  /\ UNCHANGED watching
  /\ UNCHANGED << evars, svars, gvars, cvars, bvars >>

VNext ==
  \/ \E self \in DOMAIN vheap : Vars_clone(self)
  \/ \E self \in DOMAIN vheap : \E name \in VarNames : \E value \in VarValues :
       Vars_setattr(self, name, value)
  \/ \E self \in DOMAIN vheap : \E name \in VarNames : Vars_delattr(self, name)

\* Predicate.watch(var), called by the instance self: the body is `pass`, so
\* no field of the instance, of the Env or of a Vars changes. Only the call
\* is written down.
Predicate_watch(self, var) ==
  /\ self \in DOMAIN predicates
  /\ watching' = watching \cup { << self, var >> }
  /\ UNCHANGED << vheap, vself >>
  /\ UNCHANGED << evars, svars, gvars, cvars, bvars >>

\* env.vars: the Vars object an Env is made with.
EnvVars == 1

WNext ==
  \/ \E self \in DOMAIN predicates : \E var \in VarNames :
       Predicate_watch(self, var)
  \/ \E name \in VarNames : \E value \in VarValues :
       Vars_setattr(EnvVars, name, value)

\* --------------------------------------------- the instances and cleanups
\* examples/provisioning.py: PredInst and the methods of Env that reach it.
\* A predicate call is PredFunc.__call__ followed by Env.pred_add in solving
\* mode; the worklist is left out.

\* Largest number of predicate calls made at the top level.
MaxCalls == 3

\* Largest number of cleanups one run of a predicate's function registers.
MaxRegs == 2

\* The instance at the bottom of pred_stack.
Root == "root"

\* The predicates called at the top level; their functions call "b" and "c".
Tops == {"a"}

\* PredInst.__init__
PredInst == [children |-> << >>, parents |-> << >>, cleanups |-> << >>]

\* A predicate's function: the predicates it calls, in order, then the number
\* of cleanups it registers (host_require registers one).
Body(reqs, n) == [reqs |-> reqs, regs |-> n]

BodyOf(p) == Body(<< >>, 1)

Bodies ==
  { Body(r, n) : r \in {<< >>, <<"b">>, <<"c">>, <<"b", "c">>, <<"c", "b">>},
                 n \in 0..MaxRegs }

Ev(ev, inst, f) == [ev |-> ev, inst |-> inst, fn |-> f]

NoFn == 0

CEnv(I, l) == [insts |-> I, clog |-> l]

\* PredFunc.__call__: the instance of the key, a new one when there is none.
pred_get(I, p) ==
  IF p \in DOMAIN I THEN I
  ELSE [k \in DOMAIN I \cup {p} |-> IF k = p THEN PredInst ELSE I[k]]

\* PredInst.depends
depends(I, self, p) ==
  [I EXCEPT ![self].children = Append(@, p), ![p].parents = Append(@, self)]

\* Env.cleanup, PredInst.cleanup: fn is appended to the cleanups of self.
cleanup(E, self) ==
  LET f == 1 + Cardinality({ j \in DOMAIN E.clog : E.clog[j].ev = "cleanup" })
  IN CEnv([E.insts EXCEPT ![self].cleanups = Append(@, f)],
          Append(E.clog, Ev("cleanup", self, f)))

RECURSIVE cleanup_times(_, _, _)
cleanup_times(E, self, n) ==
  IF n = 0 THEN E ELSE cleanup_times(cleanup(E, self), self, n - 1)

\* The cleanups l run, the last registered first.
RECURSIVE run_reversed(_, _, _)
run_reversed(l, self, fns) ==
  IF fns = << >> THEN l
  ELSE run_reversed(Append(l, Ev("run", self, fns[Len(fns)])), self,
                    SubSeq(fns, 1, Len(fns) - 1))

\* env.remove(child): the instance is destroyed and its cleanups fire.
remove(E, child) ==
  CEnv([k \in DOMAIN E.insts \ {child} |-> E.insts[k]],
       run_reversed(Append(E.clog, Ev("remove", child, NoFn)), child,
                    E.insts[child].cleanups))

\* PredInst.check, the last loop: clean up orphaned children.
RECURSIVE remove_orphans(_, _)
remove_orphans(E, old_children) ==
  IF old_children = << >> THEN E
  ELSE LET child == Head(old_children) IN
       remove_orphans(IF child \in DOMAIN E.insts
                         /\ E.insts[child].parents = << >>
                        THEN remove(E, child) ELSE E,
                      Tail(old_children))

\* PredInst.check, the first loop: child.parents.remove(self) for each child.
RECURSIVE detach(_, _, _)
detach(I, self, old_children) ==
  IF old_children = << >> THEN I
  ELSE detach([I EXCEPT ![Head(old_children)].parents = Remove(@, self)],
              self, Tail(old_children))

RECURSIVE PredInst_check(_, _, _)
RECURSIVE calls_of(_, _, _)

\* Env.pred_add in solving mode: the predicate on top of pred_stack depends
\* on pred, and pred is checked with itself on top of pred_stack.
pred_add(E, self, p, body) ==
  PredInst_check(CEnv(depends(pred_get(E.insts, p), self, p), E.clog),
                 p, body)

\* The predicate calls of the function of self.
calls_of(E, self, reqs) ==
  IF reqs = << >> THEN E
  ELSE calls_of(pred_add(E, self, Head(reqs), BodyOf(Head(reqs))), self,
                Tail(reqs))

\* PredInst.check
PredInst_check(E, self, body) ==
  LET old_children == E.insts[self].children
      E1 == CEnv([detach(E.insts, self, old_children)
                    EXCEPT ![self].children = << >>],
                 Append(E.clog, Ev("check", self, NoFn)))
      E2 == cleanup_times(calls_of(E1, self, body.reqs), self, body.regs)
  IN remove_orphans(E2, old_children)

CInit ==
  /\ insts = [k \in {Root} |-> PredInst]
  /\ clog = << >>

CIdle ==
  /\ insts = << >>
  /\ clog = << >>

\* A predicate call at the top level while solving.
PredFunc_call(p, body) ==
  /\ Cardinality({ j \in DOMAIN clog :
                     clog[j].ev = "check" /\ clog[j].inst \in Tops }) < MaxCalls
  /\ LET E == pred_add(CEnv(insts, clog), Root, p, body) IN
       /\ insts' = E.insts
       /\ clog' = E.clog
  /\ UNCHANGED << evars, svars, gvars, xvars, bvars >>

CNext == \E p \in Tops : \E body \in Bodies : PredFunc_call(p, body)

\* ----------------------------------------- properties of the predicate graph

\* No check() is running: between the rounds of a pass, and outside a pass.
Quiescent == gpc \in {"base", "loop", "yield"}

Symmetric(P) ==
  \A x \in DOMAIN P : \A y \in DOMAIN P :
    (y \in P[x].children) <=> (x \in P[y].parents)

\* C9: whenever no check() is running, the parent and child sets are
\* symmetric: B is in A's children exactly when A is in B's parents, also
\* after A was checked again and detached itself from its earlier children.
C9_ParentChildSymmetric == Quiescent => Symmetric(predicates)

\* The instances of a worklist whose depth is the largest, the smallest.
MaxDepthGroup(P, u) ==
  { x \in RangeOf(u) : \A y \in RangeOf(u) : P[y].depth <= P[x].depth }

MinDepthGroup(P, u) ==
  { x \in RangeOf(u) : \A y \in RangeOf(u) : P[x].depth <= P[y].depth }

\* The entries at the end of a list that have the depth of its last entry.
TailRun(P, l) ==
  { l[i] : i \in { k \in 1..Len(l) :
                     \A j \in k..Len(l) : P[l[j]].depth = P[l[Len(l)]].depth } }

\* A round has just picked pred: check(pred) is entered and has done nothing.
Picked ==
  /\ gpc = "check"
  /\ Len(frames) = 1
  /\ frames[1] = Frame(pred)
  /\ predicates = saved.predicates

C11_DepthStrict ==
  gpc = "require" =>
    \A x \in DOMAIN predicates : \A y \in predicates[x].parents :
      predicates[x].depth > predicates[y].depth

\* The functions registered require each other without a cycle.
RECURSIVE FuncRequires(_, _, _)
FuncRequires(x, y, n) ==
  /\ n > 0
  /\ \E z \in RangeOf(pred_funcs[x].reqs) : z = y \/ FuncRequires(z, y, n - 1)

Acyclic == \A x \in Names : ~FuncRequires(x, x, Cardinality(Names))

InPass == gpc \in {"loop", "check", "else", "yield"}

C13_YieldsFullySolved ==
  gpc = "yield" =>
    \A n \in DOMAIN predicates :
      predicates[n].solved /\ ~predicates[n].failed

\* The else-block of a round has just run: pred failed.
Failed == gpc = "loop" /\ pred # "" /\ predicates[pred].failed

C15_CycleFatal ==
  \A i \in DOMAIN frames : \A j \in DOMAIN frames :
    i # j => frames[i].pred # frames[j].pred

\* ------------------------------------------ properties of clones and cleanups

\* The Vars objects a lookup through c falls back on.
RECURSIVE Ancestors(_, _)
Ancestors(h, c) ==
  IF h[c].parent = NoParent
    THEN {}
    ELSE {h[c].parent} \cup Ancestors(h, h[c].parent)

\* The instances that depend on the instance n, directly or through others.
RECURSIVE ParentsOf(_, _, _)
ParentsOf(P, n, k) ==
  IF k = 0
    THEN {}
    ELSE P[n].parents \cup
         UNION { ParentsOf(P, m, k - 1) : m \in P[n].parents \cap DOMAIN P }

\* The names whose value in env.vars this step changes.
VarsChanged ==
  { v \in VarNames : vheap'[EnvVars].items[v] # vheap[EnvVars].items[v] }

\* The instances that watch a name this step changes, and their parents.
Rescheduled ==
  LET ws == { n \in DOMAIN predicates :
                \E v \in VarsChanged : << n, v >> \in watching }
  IN ws \cup UNION { ParentsOf(predicates, n, Cardinality(Names)) : n \in ws }

\* C25: when a variable an instance watches changes while no pass is running,
\* exactly that instance and the instances that depend on it are entered
\* into the worklist: they are in it after the step, and no other instance
\* enters it or stops being solved.
C25_WatchReschedules ==
  [][ (gpc = "base" /\ Len(vheap) >= EnvVars /\ Len(vheap') = Len(vheap)
        /\ VarsChanged # {}) =>
        /\ Rescheduled \subseteq RangeOf(unsolved')
        /\ \A n \in DOMAIN predicates \ Rescheduled :
             /\ n \in RangeOf(unsolved') <=> n \in RangeOf(unsolved)
             /\ predicates'[n].solved = predicates[n].solved ]_vars

Pending(i, j) ==
  LET before == SubSeq(clog, 1, j - 1)
      regd == SelectSeq(before, LAMBDA e : e.ev = "cleanup" /\ e.inst = i)
      open == SelectSeq(regd, LAMBDA e :
                \A t \in 1..(j - 1) : clog[t] # Ev("run", i, e.fn))
  IN [t \in 1..Len(open) |-> open[t].fn]

\* The instance of the event j is solved again or destroyed.
Ends(j) == clog[j].ev \in {"check", "remove"}

\* C20: when an instance is checked again or removed, the cleanups registered
\* on it and not yet run are run then, the last registered first, before its
\* function registers anything new; a cleanup is run at no other moment, and
\* so never twice.
C20_CleanupsRunOnce ==
  \A j \in DOMAIN clog :
    LET i == clog[j].inst IN
    /\ Ends(j) =>
         LET fns == Pending(i, j) IN
         /\ j + Len(fns) <= Len(clog)
         /\ \A t \in 1..Len(fns) :
              clog[j + t] = Ev("run", i, fns[Len(fns) + 1 - t])
    /\ clog[j].ev = "run" =>
         \E k \in 1..(j - 1) :
           /\ Ends(k)
           /\ clog[k].inst = i
           /\ j - k <= Len(Pending(i, k))

\* ------------------------------------------------------- the specifications

\* The choice engine before solve() is called on it, with no function.
EIdle ==
  /\ fn = << >>
  /\ choice_stack = << >>
  /\ choices = << >>
  /\ choices_idx = -1
  /\ if_any_stack = << >>
  /\ heap = << >>
  /\ mode = "idle"
  /\ pc = 0
  /\ regs = NoRegs
  /\ err = ""
  /\ yielded = << >>
  /\ pending = << >>
  /\ nenq = 0
  /\ uni = [serial |-> 0, nth |-> 0, start |-> << >>, sites |-> << >>,
           trace |-> << >>]
  /\ took = << >>
  /\ hist = << >>

\* The predicate graph before anything is registered with it.
GIdle ==
  /\ pred_funcs = << >>
  /\ predicates = << >>
  /\ unsolved = << >>
  /\ unsolved_sorted = TRUE
  /\ pred_stack = << >>
  /\ solver = FALSE
  /\ gpc = "idle"
  /\ frames = << >>
  /\ preds = << >>
  /\ pred = ""
  /\ saved = Env(<< >>, << >>, TRUE)
  /\ gerr = ""
  /\ round = [pool |-> << >>, resorted |-> FALSE]
  /\ calls = NoCalls
  /\ env = Self
  /\ baseline = Env(predicates, unsolved, unsolved_sorted)

VIdle == vheap = << >> /\ vself = NoParent /\ watching = {}

Init == EInit /\ SInit /\ GIdle /\ VIdle /\ CIdle /\ BInit

Next == ENext

\* The choice engine driving a function.
Spec == Init /\ [][Next]_vars

\* The choice engine, with solve() running on as long as it can.
SpecLive == Init /\ [][Next]_vars /\ WF_vars(Next)

StoreInit == SInit /\ EIdle /\ GIdle /\ VIdle /\ CIdle /\ BInit

StoreNext == SNext

\* The variable store under its operations.
SpecStore == StoreInit /\ [][StoreNext]_vars

NotifyInit == StoreInit

NotifyNext == NNext

\* The variable store with the callbacks of a notification run one by one.
SpecNotify == NotifyInit /\ [][NotifyNext]_vars

TreeInit == StoreInit

TreeNext == TNext

\* The variable store under mutations of paths that branch.
SpecTree == TreeInit /\ [][TreeNext]_vars

GraphInit == GInit /\ EIdle /\ SInit /\ VIdle /\ CIdle /\ BInit

GraphNext == GNext

\* The predicate graph of one Env under its operations.
SpecGraph == GraphInit /\ [][GraphNext]_vars

CloneInit ==
  /\ GInit /\ EIdle /\ SInit /\ VInit /\ CIdle /\ BInit
  /\ pred_funcs["c"] = PredFunc(<< >>, FALSE)

\* Passes over the instances of two of the names, and the variable sets.
CloneNext ==
  \/ /\ GNext
     /\ DOMAIN predicates' \subseteq {"a", "b"}
     /\ pred_funcs'["c"] = pred_funcs["c"]
  \/ VNext

\* An Env and its clones, a Vars and its clones.
SpecClone == CloneInit /\ [][CloneNext]_vars

WatchInit == CloneInit

\* Passes over the instances of two of the names, calls of watch, and writes
\* to the variables of the Env.
WatchNext ==
  \/ /\ GNext
     /\ DOMAIN predicates' \subseteq {"a", "b"}
     /\ pred_funcs'["c"] = pred_funcs["c"]
  \/ WNext

\* An Env whose instances watch its variables.
SpecWatch == WatchInit /\ [][WatchNext]_vars

CleanupInit == CInit /\ EIdle /\ SInit /\ GIdle /\ VIdle /\ BInit

CleanupNext == CNext

\* The instances of examples/provisioning.py under predicate calls.
SpecCleanup == CleanupInit /\ [][CleanupNext]_vars

BucketsInit == EIdle /\ SInit /\ GIdle /\ VIdle /\ CIdle /\ BInit

BucketsNext == BNext

\* solve(diehardn, 4, 3, 5), every step of it taken in the end.
SpecBuckets == BucketsInit /\ [][BucketsNext]_vars /\ WF_vars(BucketsNext)

RequireInit == RInit /\ EIdle /\ SInit /\ VIdle /\ CIdle /\ BInit

RequireNext == RNext

\* Requirements made between the instances of a graph.
SpecRequire == RequireInit /\ [][RequireNext]_vars

====
